---- MODULE Spec2Model ----
(***************************************************************************)
(* A model of the LISP-GPE forwarding-entry control plane                  *)
(* (vnet/lisp-gpe/lisp_gpe_fwd_entry.c) and of the MPLS output rewrite     *)
(* node (vnet/mpls/mpls_output.c).                                         *)
(*                                                                         *)
(* The control plane is single threaded: every request handler runs to     *)
(* completion, so each handler is one action.  Handlers are written as     *)
(* operators from a state record to a state record, in the order of the    *)
(* statements of the C code.  The MPLS output node is followed buffer by   *)
(* buffer through one frame.                                               *)
(*                                                                         *)
(* Spec      adds, deletes and flushes of forwarding entries               *)
(* SpecL2    MAC-keyed adds and deletes with lookups in the L2 table       *)
(* SpecPaths the path builder on lists of locator pairs                    *)
(* SpecMpls  the MPLS output node on a frame of buffers                    *)
(* SpecMplsFair  the same, with the node running to its return             *)
(* SpecAdmin the requests while LISP-GPE is enabled and disabled           *)
(* SpecNoLocators  adds of normal entries without locator pairs            *)
(* SpecWalk  MAC-keyed entries and the back walks of their path lists      *)
(* SpecPublish  the republish of an L2 table key, one table operation at   *)
(*           a time, with table searches in between                        *)
(***************************************************************************)
EXTENDS Integers, Sequences, FiniteSets, TLC

VARIABLES
  lisp_gpe_enabled,      \* vnet_lisp_gpe_enable_disable_status ()
  lisp_fwd_entry_pool,   \* lgm->lisp_fwd_entry_pool: pool index -> entry
  lisp_gpe_fwd_entries,  \* lgm->lisp_gpe_fwd_entries: key -> pool index
  lisp_adjs,             \* LISP adjacency lock counts
  tenants,               \* tenants created by lisp_gpe_tenant_find_or_create
  fibs,                  \* IP FIB tables: <<proto, index>> -> table
  l2_fib,                \* lgm->l2_fib: bihash key -> value
  path_lists,            \* FIB path lists: index -> path list
  rv,                    \* value returned by the last call
  op,                    \* the last call: what was asked, in which state
  snap,                  \* store size and adjacency locks before the last add
  lkup,                  \* the last lookup in the L2 table and its result
  upd,                   \* a republish of an L2 table key under way: where it is, old and new value
  pb,                    \* a run of the path builder: locator pairs, paths, route paths
  mpls_pc,               \* where the MPLS output node is: "idle", "loop" or "done"
  is_midchain,           \* the node that runs: mpls-midchain (TRUE) or mpls-output
  from_frame,            \* the buffer indices of the frame given to the node
  from,                  \* position of the next buffer index to take from the frame
  buffers,               \* vlib buffers: buffer index -> buffer
  frame_in,              \* the buffers as they were when the frame was given
  enqueued,              \* the <<buffer index, next, error, fixup called before>> enqueued, in order
  fixups,                \* the buffer indices given to the fixup function, in order
  adjacency_counters,    \* bytes added to the adjacency counters by this run
  pkts_encap,            \* MPLS_ERROR_PKTS_ENCAP added to the node counter by this run
  next_index,            \* the next node the loop is filling a frame of
  next_frames            \* the frames of each next node, in order; the last is being filled

lisp_vars == <<lisp_gpe_enabled, lisp_fwd_entry_pool, lisp_gpe_fwd_entries,
               lisp_adjs, tenants, fibs, l2_fib, path_lists, rv, op, snap, upd>>

mpls_vars == <<mpls_pc, is_midchain, from_frame, from, buffers, frame_in,
               enqueued, fixups, adjacency_counters, pkts_encap, next_index, next_frames>>

\* What the data plane and the other modules can observe of the control
\* plane: everything but the record of the last call.
lisp_state == <<lisp_fwd_entry_pool, lisp_gpe_fwd_entries, lisp_adjs,
                tenants, fibs, l2_fib, path_lists>>

-----------------------------------------------------------------------------
(* Bounds of the model *)

\* Capacity given to the forwarding-entry pool.
MaxEntries == 2

\* Longest list of locator pairs given to the path builder on its own.
MaxPaths == 3

\* Largest number of buffers in a frame given to the MPLS output node.
MaxFrame == 2

\* Number of buffers a frame of a next node holds (VLIB_FRAME_SIZE).
VLIB_FRAME_SIZE == 2

(* Enumerations of the program *)

IP4 == "IP4"
IP6 == "IP6"
FIB_PROTOCOL_IP4 == "FIB_PROTOCOL_IP4"
FIB_PROTOCOL_IP6 == "FIB_PROTOCOL_IP6"
GID_ADDR_IP_PREFIX == "GID_ADDR_IP_PREFIX"
GID_ADDR_MAC == "GID_ADDR_MAC"
FID_ADDR_IP_PREF == "FID_ADDR_IP_PREF"
FID_ADDR_MAC == "FID_ADDR_MAC"
LISP_GPE_FWD_ENTRY_TYPE_NORMAL == "LISP_GPE_FWD_ENTRY_TYPE_NORMAL"
LISP_GPE_FWD_ENTRY_TYPE_NEGATIVE == "LISP_GPE_FWD_ENTRY_TYPE_NEGATIVE"
LISP_NO_ACTION == "LISP_NO_ACTION"
LISP_FORWARD_NATIVE == "LISP_FORWARD_NATIVE"
LISP_SEND_MAP_REQUEST == "LISP_SEND_MAP_REQUEST"
LISP_DROP == "LISP_DROP"
VNET_API_ERROR_INVALID_VALUE == "VNET_API_ERROR_INVALID_VALUE"
VNET_API_ERROR_LISP_DISABLED == "VNET_API_ERROR_LISP_DISABLED"
RV_OK == "0"
RV_MINUS_ONE == "-1"
\* No return value: the process was aborted inside the call.
RV_ABORT == "abort"
MPLS_LABEL_INVALID == "MPLS_LABEL_INVALID"

(* Inputs of the model *)

VNIs == {1, 2}
TableIds == {0}
IpVersions == {IP4, IP6}
RmtVersions == {IP6}
RmtAddrs == {1}
LclAddrs == {0, 1}
RmtMacs == {1}
LclMacs == {0, 1}
BdIds == {10, 99}
RLocs == {1, 2}
NegativeActions == {LISP_SEND_MAP_REQUEST, LISP_DROP}

\* bd_main.bd_index_by_bd_id: bridge domain 10 exists, 99 does not.
bd_index_by_bd_id == [id \in {10} |-> 1]

ZeroPrefix == [version |-> IP4, addr |-> 0]

IpEid(v, x) == [type |-> GID_ADDR_IP_PREFIX, ippref |-> [version |-> v, addr |-> x], mac |-> 0]
MacEid(m) == [type |-> GID_ADDR_MAC, ippref |-> ZeroPrefix, mac |-> m]

LocatorPair(p, w, r) == [priority |-> p, weight |-> w, lcl_loc |-> 1, rmt_loc |-> r]

\* The locator-pair lists offered to add requests: two pairs given in
\* descending priority order, one of them of weight 0.
LocatorLists == { <<LocatorPair(20, 2, 2), LocatorPair(10, 0, 1)>> }


-----------------------------------------------------------------------------
(* vppinfra helpers *)

\* pool_get: the index handed out for a new element of a pool whose
\* allocated indices are `used`.
pool_get(used) == CHOOSE i \in 0..Cardinality(used) : i \notin used /\ \A j \in 0..(i - 1) : j \in used

\* hash_set / bihash add: f with key k set to v.
MapSet(f, k, v) == [x \in (DOMAIN f) \cup {k} |-> IF x = k THEN v ELSE f[x]]

\* hash_unset / bihash del: f without key k.
MapUnset(f, k) == [x \in (DOMAIN f) \ {k} |-> f[x]]

EmptyMap == [x \in {} |-> 0]

\* The permutations of 1..n.
Perms(n) == {f \in [1..n -> 1..n] : \A i, j \in 1..n : f[i] = f[j] => i = j}

-----------------------------------------------------------------------------
(* LISP adjacencies and tenants (lisp_gpe_adjacency.c, lisp_gpe_tenant.c) *)

\* An adjacency is identified by its locator pair and the VNI.
AdjKeys == {1} \X RLocs \X VNIs

\* lock_count + 1 on the adjacency of `pair` in `vni`, created on first use.
lisp_gpe_adjacency_find_or_create_and_lock(adjs, pair, vni) ==
  [adjs EXCEPT ![<<pair.lcl_loc, pair.rmt_loc, vni>>] = @ + 1]

\* lock_count - 1; the adjacency is destroyed when it reaches 0.
lisp_gpe_adjacency_unlock(adjs, lisp_adj) == [adjs EXCEPT ![lisp_adj] = @ - 1]

\* The adjacency object: its remote locator and its tunnel interface.
lisp_gpe_adjacency_get(lisp_adj) == [remote_rloc |-> lisp_adj[2], sw_if_index |-> lisp_adj[3]]

\* The tenant of a VNI, created on first use; its index stands for it.
lisp_gpe_tenant_find_or_create(tnts, vni) == tnts \cup {vni}

-----------------------------------------------------------------------------
(* The route tables (vnet/fib): only routes sourced by FIB_SOURCE_LISP *)

ip_prefix_to_fib_prefix(p) ==
  [fp_proto |-> IF p.version = IP4 THEN FIB_PROTOCOL_IP4 ELSE FIB_PROTOCOL_IP6,
   fp_addr |-> p.addr]

\* fib_table_lookup_exact_match (...) != FIB_NODE_INDEX_INVALID
fib_table_lookup_exact_match(fb, fib_index, pfx) ==
  /\ <<pfx.fp_proto, fib_index>> \in DOMAIN fb
  /\ pfx \in DOMAIN fb[<<pfx.fp_proto, fib_index>>].routes

\* The table of a table id is found, or created, and locked.
fib_table_find_or_create_and_lock(fb, fproto, table_id) ==
  LET have == {k \in DOMAIN fb : k[1] = fproto /\ fb[k].ft_table_id = table_id}
      used == {k[2] : k \in {x \in DOMAIN fb : x[1] = fproto}}
      index == IF have # {} THEN (CHOOSE k \in have : TRUE)[2] ELSE pool_get(used)
      table == IF have # {} THEN [fb[<<fproto, index>>] EXCEPT !.ft_locks = @ + 1]
               ELSE [ft_table_id |-> table_id, ft_locks |-> 1, routes |-> EmptyMap]
  IN  [fibs |-> MapSet(fb, <<fproto, index>>, table), fib_index |-> index]

\* A new table without a table id, locked once.
fib_table_create_and_lock(fb, fproto) ==
  LET used == {k[2] : k \in {x \in DOMAIN fb : x[1] = fproto}}
      index == pool_get(used)
  IN  [fibs |-> MapSet(fb, <<fproto, index>>, [ft_table_id |-> -1, ft_locks |-> 1, routes |-> EmptyMap]),
       fib_index |-> index]

\* One lock less; the table is destroyed with its last lock.  Unlocking a
\* table that was already destroyed touches no live table.
fib_table_unlock(fb, fib_index, fproto) ==
  LET k == <<fproto, fib_index>>
  IN  IF k \notin DOMAIN fb THEN fb
      ELSE IF fb[k].ft_locks = 1 THEN MapUnset(fb, k)
      ELSE [fb EXCEPT ![k].ft_locks = @ - 1]

\* fib_table_entry_special_dpo_add / fib_table_entry_update: the route of
\* pfx sourced by LISP is set to `route`.
fib_table_entry_set(fb, fib_index, pfx, route) ==
  LET k == <<pfx.fp_proto, fib_index>>
  IN  IF k \notin DOMAIN fb THEN fb
      ELSE [fb EXCEPT ![k].routes = MapSet(@, pfx, route)]

\* fib_table_entry_delete / fib_table_entry_special_remove: the LISP source
\* of pfx is removed; removing a route that is not there is allowed.
fib_table_entry_delete(fb, fib_index, pfx) ==
  LET k == <<pfx.fp_proto, fib_index>>
  IN  IF k \notin DOMAIN fb THEN fb
      ELSE [fb EXCEPT ![k].routes = MapUnset(@, pfx)]

\* The number of LISP-sourced routes of the table.  The count of a table
\* that was already destroyed is read from freed memory: `u` is what is read.
fib_table_get_num_entries(fb, fib_index, fproto, u) ==
  IF <<fproto, fib_index>> \in DOMAIN fb
  THEN Cardinality(DOMAIN fb[<<fproto, fib_index>>].routes)
  ELSE u

\* The forwarding of a destination route: look the source address up in
\* the source table.
LookupDpo(src_fib_index) == [kind |-> "lookup", fib_index |-> src_fib_index, dpo |-> "", rpaths |-> <<>>]
\* The forwarding of a source route of a negative entry: a fixed action.
FixedDpo(name) == [kind |-> "dpo", fib_index |-> 0, dpo |-> name, rpaths |-> <<>>]
\* The forwarding of a source route of a normal entry: its route paths.
PathsFwd(rpaths) == [kind |-> "paths", fib_index |-> 0, dpo |-> "", rpaths |-> rpaths]

-----------------------------------------------------------------------------
(* The path builder *)

\* lisp_gpe_fwd_entry_path_sort: the comparison given to the sort.
lisp_gpe_fwd_entry_path_sort(p1, p2) == p1.priority - p2.priority

\* vec_sort_with_function (qsort): the orders the sort may leave `paths` in,
\* each a permutation that the comparison finds in order; the order of
\* paths that compare equal is not determined.
vec_sort_with_function(paths) ==
  { [i \in 1..Len(paths) |-> paths[f[i]]] : f \in
      { g \in Perms(Len(paths)) : \A i, j \in 1..Len(paths) :
          i < j => lisp_gpe_fwd_entry_path_sort(paths[g[i]], paths[g[j]]) <= 0 } }

ZeroRoutePath == [frp_addr |-> 0, frp_sw_if_index |-> 0, frp_weight |-> 0, frp_label |-> "0"]

\* The loop of lisp_gpe_mk_fib_paths from index ii on (ii counts from 1).
RECURSIVE mk_fib_paths_loop(_, _, _, _)
mk_fib_paths_loop(paths, rpaths, best_priority, ii) ==
  IF ii > Len(paths) THEN rpaths
  ELSE IF paths[1].priority # best_priority THEN rpaths
  ELSE LET ladj == lisp_gpe_adjacency_get(paths[ii].lisp_adj)
           rpath == [frp_addr |-> ladj.remote_rloc,
                     frp_sw_if_index |-> ladj.sw_if_index,
                     frp_weight |-> IF paths[ii].weight # 0 THEN paths[ii].weight ELSE 1,
                     frp_label |-> MPLS_LABEL_INVALID]
       IN  mk_fib_paths_loop(paths, [rpaths EXCEPT ![ii] = rpath], best_priority, ii + 1)

\* lisp_gpe_mk_fib_paths that gives every route path the weight of its
\* path as it is.
lisp_gpe_mk_fib_paths_weight_as_given(paths) ==
  [ii \in 1..Len(paths) |->
     LET ladj == lisp_gpe_adjacency_get(paths[ii].lisp_adj)
     IN  [frp_addr |-> ladj.remote_rloc,
          frp_sw_if_index |-> ladj.sw_if_index,
          frp_weight |-> paths[ii].weight,
          frp_label |-> MPLS_LABEL_INVALID]]

\* lisp_gpe_mk_fib_paths: the route paths made from the (sorted) paths of an
\* entry; the vector is validated to the length of `paths` first.
lisp_gpe_mk_fib_paths(paths) ==
  LET rpaths == [ii \in 1..Len(paths) |-> ZeroRoutePath]
      best_priority == paths[1].priority
  IN  mk_fib_paths_loop(paths, rpaths, best_priority, 1)

\* The loop of lisp_gpe_fwd_entry_mk_paths: paths `index`.. of the entry are
\* filled from the locator pairs, each locking its adjacency.
RECURSIVE mk_paths_loop(_, _, _, _)
mk_paths_loop(r, locator_pairs, vni, index) ==
  IF index > Len(locator_pairs) THEN r
  ELSE LET pair == locator_pairs[index]
           path == [priority |-> pair.priority, weight |-> pair.weight,
                    lisp_adj |-> <<pair.lcl_loc, pair.rmt_loc, vni>>]
       IN  mk_paths_loop([paths |-> Append(r.paths, path),
                          adjs |-> lisp_gpe_adjacency_find_or_create_and_lock(r.adjs, pair, vni)],
                         locator_pairs, vni, index + 1)

\* lisp_gpe_fwd_entry_mk_paths without the sort of the paths.
lisp_gpe_fwd_entry_mk_paths_no_sort(st, li, a, sorted) ==
  LET r == mk_paths_loop([paths |-> <<>>, adjs |-> st.adjs], a.locator_pairs, st.pool[li].key.vni, 1)
  IN  [st EXCEPT !.pool[li].paths = r.paths, !.adjs = r.adjs]

\* lisp_gpe_fwd_entry_mk_paths: entry li gets one path per locator pair of
\* the request, sorted by priority; `sorted` is the order the sort chose.
lisp_gpe_fwd_entry_mk_paths(st, li, a, sorted) ==
  LET r == mk_paths_loop([paths |-> <<>>, adjs |-> st.adjs], a.locator_pairs, st.pool[li].key.vni, 1)
  IN  [st EXCEPT !.pool[li].paths = sorted, !.adjs = r.adjs]

\* The paths of the request before the sort.
UnsortedPaths(a) ==
  mk_paths_loop([paths |-> <<>>, adjs |-> [k \in AdjKeys |-> 0]], a.locator_pairs, a.vni, 1).paths

-----------------------------------------------------------------------------
(* The destination / source route manager *)

\* ip_dst_fib_add_route that makes a source table and sets the destination
\* route whether or not the prefix has one.
ip_dst_fib_add_route_always_create(fb, dst_fib_index, dst_prefix) ==
  LET dst_fib_prefix == ip_prefix_to_fib_prefix(dst_prefix)
      c == fib_table_create_and_lock(fb, dst_fib_prefix.fp_proto)
  IN  [fibs |-> fib_table_entry_set(c.fibs, dst_fib_index, dst_fib_prefix,
                  [lisp_data |-> c.fib_index, fwd |-> LookupDpo(c.fib_index)]),
       src_fib_index |-> c.fib_index]

\* ip_dst_fib_add_route: the source table of the destination prefix, made
\* with the destination route when the prefix has none sourced by LISP.
ip_dst_fib_add_route(fb, dst_fib_index, dst_prefix) ==
  LET dst_fib_prefix == ip_prefix_to_fib_prefix(dst_prefix)
      dst_k == <<dst_fib_prefix.fp_proto, dst_fib_index>>
  IN  IF ~fib_table_lookup_exact_match(fb, dst_fib_index, dst_fib_prefix)
      THEN LET c == fib_table_create_and_lock(fb, dst_fib_prefix.fp_proto)
           IN  [fibs |-> fib_table_entry_set(c.fibs, dst_fib_index, dst_fib_prefix,
                           [lisp_data |-> c.fib_index, fwd |-> LookupDpo(c.fib_index)]),
                src_fib_index |-> c.fib_index]
      ELSE [fibs |-> fb, src_fib_index |-> fb[dst_k].routes[dst_fib_prefix].lisp_data]

\* ip_src_dst_fib_del_route that does not count the routes left.
ip_src_dst_fib_del_route_no_count(fb, src_fib_index, src_prefix, dst_fib_index, dst_prefix, u) ==
  LET dst_fib_prefix == ip_prefix_to_fib_prefix(dst_prefix)
      src_fib_prefix == ip_prefix_to_fib_prefix(src_prefix)
      f1 == fib_table_entry_delete(fb, src_fib_index, src_fib_prefix)
  IN  fib_table_unlock(fib_table_entry_delete(f1, dst_fib_index, dst_fib_prefix),
                       src_fib_index, src_fib_prefix.fp_proto)

\* ip_src_dst_fib_del_route: the source route is removed, and with the last
\* one the destination route and the lock on the source table.
ip_src_dst_fib_del_route(fb, src_fib_index, src_prefix, dst_fib_index, dst_prefix, u) ==
  LET dst_fib_prefix == ip_prefix_to_fib_prefix(dst_prefix)
      src_fib_prefix == ip_prefix_to_fib_prefix(src_prefix)
      f1 == fib_table_entry_delete(fb, src_fib_index, src_fib_prefix)
  IN  IF 0 = fib_table_get_num_entries(f1, src_fib_index, src_fib_prefix.fp_proto, u)
      THEN fib_table_unlock(fib_table_entry_delete(f1, dst_fib_index, dst_fib_prefix),
                            src_fib_index, src_fib_prefix.fp_proto)
      ELSE f1

\* ip_src_fib_add_route_w_dpo: the source route gets the fixed action,
\* unless the prefix already has a route sourced by LISP.
ip_src_fib_add_route_w_dpo(fb, src_fib_index, src_prefix, src_dpo) ==
  LET src_fib_prefix == ip_prefix_to_fib_prefix(src_prefix)
  IN  IF ~fib_table_lookup_exact_match(fb, src_fib_index, src_fib_prefix)
      THEN fib_table_entry_set(fb, src_fib_index, src_fib_prefix,
                               [lisp_data |-> -1, fwd |-> FixedDpo(src_dpo)])
      ELSE fb

\* ip_src_fib_add_route: the source route is set to the route paths.
ip_src_fib_add_route(fb, src_fib_index, src_prefix, paths) ==
  LET src_fib_prefix == ip_prefix_to_fib_prefix(src_prefix)
      rpaths == lisp_gpe_mk_fib_paths(paths)
  IN  fib_table_entry_set(fb, src_fib_index, src_fib_prefix,
                          [lisp_data |-> -1, fwd |-> PathsFwd(rpaths)])

\* create_fib_entries: the routes of IP entry li.
create_fib_entries(st, li) ==
  LET lfe == st.pool[li]
      d == ip_dst_fib_add_route(st.fibs, lfe.eid_fib_index, lfe.key.rmt.ippref)
      dpo == CASE lfe.action = LISP_DROP -> "drop_dpo"
               [] OTHER -> "lisp_cp_dpo"
      fb == IF LISP_GPE_FWD_ENTRY_TYPE_NEGATIVE = lfe.type
            THEN ip_src_fib_add_route_w_dpo(d.fibs, d.src_fib_index, lfe.key.lcl.ippref, dpo)
            ELSE ip_src_fib_add_route(d.fibs, d.src_fib_index, lfe.key.lcl.ippref, lfe.paths)
  IN  [st EXCEPT !.pool[li].src_fib_index = d.src_fib_index, !.fibs = fb]

\* delete_fib_entries: the routes of IP entry lfe are withdrawn.
delete_fib_entries(st, lfe, u) ==
  [st EXCEPT !.fibs = ip_src_dst_fib_del_route(st.fibs, lfe.src_fib_index, lfe.key.lcl.ippref,
                                               lfe.eid_fib_index, lfe.key.rmt.ippref, u)]

-----------------------------------------------------------------------------
(* The forwarding-entry store: IP-keyed entries *)

gid_to_dp_address(g) ==
  IF g.type = GID_ADDR_IP_PREFIX
  THEN [type |-> FID_ADDR_IP_PREF, ippref |-> g.ippref, mac |-> 0]
  ELSE [type |-> FID_ADDR_MAC, ippref |-> ZeroPrefix, mac |-> g.mac]

\* find_fwd_entry that leaves the IP version of the local endpoint as it
\* was given.
find_fwd_entry_version_as_given(st, a) ==
  LET key == [rmt |-> gid_to_dp_address(a.rmt_eid),
              lcl |-> gid_to_dp_address(a.lcl_eid),
              vni |-> a.vni]
  IN  [key |-> key, found |-> key \in DOMAIN st.hash]

\* find_fwd_entry: the key of the request, made after the IP version of the
\* local endpoint is forced to the remote's, and whether the key is in the
\* hash.
find_fwd_entry(st, a) ==
  LET a1 == IF GID_ADDR_IP_PREFIX = a.rmt_eid.type
            THEN [a EXCEPT !.lcl_eid.ippref.version = a.rmt_eid.ippref.version]
            ELSE a
      key == [rmt |-> gid_to_dp_address(a1.rmt_eid),
              lcl |-> gid_to_dp_address(a1.lcl_eid),
              vni |-> a1.vni]
  IN  [key |-> key, found |-> key \in DOMAIN st.hash]

\* memset (lfe, 0, sizeof (*lfe)) and lfe->key = copy of the key.
ZeroEntry(key) ==
  [key |-> key, type |-> LISP_GPE_FWD_ENTRY_TYPE_NORMAL, action |-> LISP_NO_ACTION,
   tenant |-> 0, eid_table_id |-> 0, eid_fib_index |-> 0, src_fib_index |-> 0,
   paths |-> <<>>,
   l2 |-> [eid_bd_id |-> 0, eid_bd_index |-> 0, path_list_index |-> 0, child_index |-> 0,
           dpo |-> [dpoi_type |-> "DPO_FIRST", dpoi_index |-> 0]]]

\* pool_get, memset, key copy and hash_set_mem of the two add functions.
AllocEntry(st, key) ==
  LET li == pool_get(DOMAIN st.pool)
  IN  [st |-> [st EXCEPT !.pool = MapSet(@, li, ZeroEntry(key)),
                         !.hash = MapSet(@, key, li)],
       li |-> li]

\* hash_unset_mem, clib_mem_free and pool_put of the two delete functions.
\* The entry is put back to the pool and its key left in the hash.
FreeEntry_keep_hash(st, li) ==
  [st EXCEPT !.pool = MapUnset(@, li)]

FreeEntry(st, li) ==
  [st EXCEPT !.hash = MapUnset(@, st.pool[li].key), !.pool = MapUnset(@, li)]

\* vec_foreach (path, lfe->paths) lisp_gpe_adjacency_unlock (path->lisp_adj)
RECURSIVE unlock_paths(_, _, _)
unlock_paths(adjs, paths, i) ==
  IF i > Len(paths) THEN adjs
  ELSE unlock_paths(lisp_gpe_adjacency_unlock(adjs, paths[i].lisp_adj), paths, i + 1)

\* add_ip_fwd_entry without the check that the key is not in the store.
add_ip_fwd_entry_no_find(st, a, sorted) ==
  LET f == find_fwd_entry(st, a)
      n == AllocEntry(st, f.key)
      li == n.li
      fproto == IF IP4 = f.key.rmt.ippref.version THEN FIB_PROTOCOL_IP4 ELSE FIB_PROTOCOL_IP6
      t == fib_table_find_or_create_and_lock(n.st.fibs, fproto, a.table_id)
      s1 == [n.st EXCEPT
               !.pool[li].type = IF a.is_negative THEN LISP_GPE_FWD_ENTRY_TYPE_NEGATIVE
                                 ELSE LISP_GPE_FWD_ENTRY_TYPE_NORMAL,
               !.pool[li].tenant = f.key.vni,
               !.tenants = lisp_gpe_tenant_find_or_create(@, f.key.vni),
               !.pool[li].eid_table_id = a.table_id,
               !.pool[li].eid_fib_index = t.fib_index,
               !.fibs = t.fibs]
      s2 == IF LISP_GPE_FWD_ENTRY_TYPE_NEGATIVE # s1.pool[li].type
            THEN lisp_gpe_fwd_entry_mk_paths(s1, li, a, sorted)
            ELSE s1
  IN  [st |-> create_fib_entries(s2, li), rv |-> RV_OK]

add_ip_fwd_entry(st, a, sorted) ==
  LET f == find_fwd_entry(st, a)
      n == AllocEntry(st, f.key)
      li == n.li
      fproto == IF IP4 = f.key.rmt.ippref.version THEN FIB_PROTOCOL_IP4 ELSE FIB_PROTOCOL_IP6
      t == fib_table_find_or_create_and_lock(n.st.fibs, fproto, a.table_id)
      s1 == [n.st EXCEPT
               !.pool[li].type = IF a.is_negative THEN LISP_GPE_FWD_ENTRY_TYPE_NEGATIVE
                                 ELSE LISP_GPE_FWD_ENTRY_TYPE_NORMAL,
               !.pool[li].tenant = f.key.vni,
               !.tenants = lisp_gpe_tenant_find_or_create(@, f.key.vni),
               !.pool[li].eid_table_id = a.table_id,
               !.pool[li].eid_fib_index = t.fib_index,
               !.fibs = t.fibs]
      s2 == IF LISP_GPE_FWD_ENTRY_TYPE_NEGATIVE # s1.pool[li].type
            THEN lisp_gpe_fwd_entry_mk_paths(s1, li, a, sorted)
            ELSE s1
  IN  IF f.found
      THEN [st |-> st, rv |-> VNET_API_ERROR_INVALID_VALUE]
      ELSE [st |-> create_fib_entries(s2, li), rv |-> RV_OK]

\* del_ip_fwd_entry_i without the unlock of the adjacencies of the paths.
del_ip_fwd_entry_i_no_unlock(st, li, u) ==
  LET lfe == st.pool[li]
      s2 == delete_fib_entries(st, lfe, u)
      fproto == IF IP4 = lfe.key.rmt.ippref.version THEN FIB_PROTOCOL_IP4 ELSE FIB_PROTOCOL_IP6
      s3 == [s2 EXCEPT !.fibs = fib_table_unlock(@, lfe.eid_fib_index, fproto)]
  IN  FreeEntry(s3, li)

del_ip_fwd_entry_i(st, li, u) ==
  LET lfe == st.pool[li]
      s1 == [st EXCEPT !.adjs = unlock_paths(@, lfe.paths, 1)]
      s2 == delete_fib_entries(s1, lfe, u)
      fproto == IF IP4 = lfe.key.rmt.ippref.version THEN FIB_PROTOCOL_IP4 ELSE FIB_PROTOCOL_IP6
      s3 == [s2 EXCEPT !.fibs = fib_table_unlock(@, lfe.eid_fib_index, fproto)]
  IN  FreeEntry(s3, li)

\* del_ip_fwd_entry that answers a key it does not find with success.
del_ip_fwd_entry_no_error(st, a, u) ==
  LET f == find_fwd_entry(st, a)
  IN  IF ~f.found
      THEN [st |-> st, rv |-> RV_OK]
      ELSE [st |-> del_ip_fwd_entry_i(st, st.hash[f.key], u), rv |-> RV_OK]

del_ip_fwd_entry(st, a, u) ==
  LET f == find_fwd_entry(st, a)
  IN  IF ~f.found
      THEN [st |-> st, rv |-> VNET_API_ERROR_INVALID_VALUE]
      ELSE [st |-> del_ip_fwd_entry_i(st, st.hash[f.key], u), rv |-> RV_OK]

-----------------------------------------------------------------------------
(* The L2 forwarding table *)

\* mac_to_u64: the 48 bits of the MAC address.
mac_to_u64(mac) == mac

\* make_mac_fib_key: key[0] holds bd_index in its bits 48..63 and the
\* destination MAC in its bits 0..47, written here as the pair of the two;
\* key[1] is the source MAC and key[2] is 0.
make_mac_fib_key(bd_index, src_mac, dst_mac) ==
  << <<bd_index, mac_to_u64(dst_mac)>>, mac_to_u64(src_mac), 0 >>

\* lgm->l2_lb_cp_lkup as l2_fib_init sets it: the load balance made for the
\* misses of the L2 table, the first load balance of the model.
l2_lb_cp_lkup == [dpoi_type |-> "DPO_LOAD_BALANCE", dpoi_index |-> 0]

\* What the load balance with index lbi sends packets to: the load balance
\* l2_fib_init makes for the misses has the one bucket lisp_cp_dpo, the
\* load balance a path list contributes has the route paths of the list.
load_balance_get_bucket(lbi) ==
  IF lbi = l2_lb_cp_lkup.dpoi_index THEN "lisp_cp_dpo" ELSE "paths"

\* lisp_l2_fib_lookup without the second search, for the key with the
\* source MAC zeroed.
lisp_l2_fib_lookup_no_fallback(l2, bd_index, src_mac, dst_mac) ==
  l2_lb_cp_lkup.dpoi_index

\* lisp_l2_fib_lookup: the exact key is searched, then the key with the
\* source MAC zeroed; the value of the second search is returned when the
\* first search fails and the second succeeds.
lisp_l2_fib_lookup(l2, bd_index, src_mac, dst_mac) ==
  LET kv == make_mac_fib_key(bd_index, src_mac, dst_mac)
      rv1 == IF kv \in DOMAIN l2 THEN 0 ELSE -1
      kv2 == [kv EXCEPT ![2] = 0]
      rv2 == IF kv2 \in DOMAIN l2 THEN 0 ELSE -1
  IN  IF rv1 # 0
      THEN IF rv2 = 0 THEN l2[kv2] ELSE l2_lb_cp_lkup.dpoi_index
      ELSE l2_lb_cp_lkup.dpoi_index

\* lisp_l2_fib_add_del_entry that removes a key that is in the table before
\* it adds it again: the table after the removal.
lisp_l2_fib_add_del_entry_del_first(l2, bd_index, src_mac, dst_mac, dpoi_index, is_add) ==
  LET kv == make_mac_fib_key(bd_index, src_mac, dst_mac)
      old_val == IF kv \in DOMAIN l2 THEN l2[kv] ELSE -1
  IN  [l2_fib |-> IF ~is_add \/ kv \in DOMAIN l2 THEN MapUnset(l2, kv) ELSE MapSet(l2, kv, dpoi_index),
       old_val |-> old_val]

\* lisp_l2_fib_add_del_entry: the table after the add or the delete, and
\* the value the key had (-1 stands for ~0).
lisp_l2_fib_add_del_entry(l2, bd_index, src_mac, dst_mac, dpoi_index, is_add) ==
  LET kv == make_mac_fib_key(bd_index, src_mac, dst_mac)
      old_val == IF kv \in DOMAIN l2 THEN l2[kv] ELSE -1
  IN  [l2_fib |-> IF ~is_add THEN MapUnset(l2, kv) ELSE MapSet(l2, kv, dpoi_index),
       old_val |-> old_val]

-----------------------------------------------------------------------------
(* FIB path lists (vnet/fib/fib_path_list.c) *)

\* A new path list over the route paths; the load balance it contributes
\* is numbered after it (0 is the load balance of the L2 misses).
fib_path_list_create(pls, rpaths) ==
  LET pli == pool_get(DOMAIN pls)
  IN  [path_lists |-> MapSet(pls, pli, [rpaths |-> rpaths, children |-> EmptyMap,
                                        locks |-> 0, lb |-> pli + 1]),
       path_list_index |-> pli]

\* The child is added to the path list, which it locks.
fib_path_list_child_add(pls, pli, child) ==
  LET ci == pool_get(DOMAIN pls[pli].children)
  IN  [path_lists |-> [pls EXCEPT ![pli].children = MapSet(@, ci, child), ![pli].locks = @ + 1],
       child_index |-> ci]

\* The child is removed and the path list unlocked; the path list is
\* destroyed with its last lock.
fib_path_list_child_remove(pls, pli, ci) ==
  IF pls[pli].locks = 1 THEN MapUnset(pls, pli)
  ELSE [pls EXCEPT ![pli].children = MapUnset(@, ci), ![pli].locks = @ - 1]

fib_path_list_contribute_forwarding(pls, pli) ==
  [dpoi_type |-> "DPO_LOAD_BALANCE", dpoi_index |-> pls[pli].lb]

-----------------------------------------------------------------------------
(* The forwarding-entry store: MAC-keyed entries *)

\* lisp_gpe_l2_update_fwding: the forwarding of entry li is computed and
\* put in the L2 table.
lisp_gpe_l2_update_fwding(st, li) ==
  LET lfe == st.pool[li]
      contributed == fib_path_list_contribute_forwarding(st.path_lists, lfe.l2.path_list_index)
      dpo == IF LISP_GPE_FWD_ENTRY_TYPE_NEGATIVE # lfe.type THEN contributed ELSE l2_lb_cp_lkup
      s1 == IF LISP_GPE_FWD_ENTRY_TYPE_NEGATIVE # lfe.type
            THEN [st EXCEPT !.pool[li].l2.dpo = contributed]
            ELSE st
  IN  [s1 EXCEPT !.l2_fib = lisp_l2_fib_add_del_entry(@, lfe.l2.eid_bd_index, lfe.key.lcl.mac,
                                                      lfe.key.rmt.mac, dpo.dpoi_index, TRUE).l2_fib]

FIB_NODE_BACK_WALK_CONTINUE == "FIB_NODE_BACK_WALK_CONTINUE"
FIB_NODE_BACK_WALK_STOP == "FIB_NODE_BACK_WALK_STOP"

\* lisp_gpe_fib_node_back_walk that leaves the entry as it is.
lisp_gpe_fib_node_back_walk_no_update(st, li) ==
  [st |-> st, rc |-> FIB_NODE_BACK_WALK_CONTINUE]

\* lisp_gpe_fib_node_back_walk: the forwarding of the entry of the node is
\* computed and published again, and the walk is told to go on.
lisp_gpe_fib_node_back_walk(st, li) ==
  [st |-> lisp_gpe_l2_update_fwding(st, li), rc |-> FIB_NODE_BACK_WALK_CONTINUE]

\* The path list makes its load balance anew: the load balance it
\* contributes from now on is another one.
fib_path_list_recompute(pls, pli) ==
  [pls EXCEPT ![pli].lb = IF @ = pli + 1 THEN pli + 1 + MaxEntries ELSE pli + 1]

\* The back walk of the children of path list pli from child index ci on:
\* each child's back-walk function is called, until one says stop.
RECURSIVE fib_walk_children(_, _, _)
fib_walk_children(r, pli, ci) ==
  IF ci >= MaxEntries \/ r.rc # FIB_NODE_BACK_WALK_CONTINUE THEN r
  ELSE IF ci \notin DOMAIN r.st.path_lists[pli].children THEN fib_walk_children(r, pli, ci + 1)
  ELSE fib_walk_children(lisp_gpe_fib_node_back_walk(r.st, r.st.path_lists[pli].children[ci]),
                         pli, ci + 1)

\* del_l2_fwd_entry_i that leaves the entry a child of its path list.
del_l2_fwd_entry_i_no_child_remove(st, li) ==
  LET lfe == st.pool[li]
      s1 == IF LISP_GPE_FWD_ENTRY_TYPE_NEGATIVE # lfe.type
            THEN [st EXCEPT !.adjs = unlock_paths(@, lfe.paths, 1)]
            ELSE st
      s2 == [s1 EXCEPT !.l2_fib = lisp_l2_fib_add_del_entry(@, lfe.l2.eid_bd_index, lfe.key.lcl.mac,
                                                            lfe.key.rmt.mac, 0, FALSE).l2_fib]
  IN  FreeEntry(s2, li)

del_l2_fwd_entry_i(st, li) ==
  LET lfe == st.pool[li]
      s1 == IF LISP_GPE_FWD_ENTRY_TYPE_NEGATIVE # lfe.type
            THEN [st EXCEPT !.adjs = unlock_paths(@, lfe.paths, 1),
                            !.path_lists = fib_path_list_child_remove(@, lfe.l2.path_list_index,
                                                                      lfe.l2.child_index)]
            ELSE st
      s2 == [s1 EXCEPT !.l2_fib = lisp_l2_fib_add_del_entry(@, lfe.l2.eid_bd_index, lfe.key.lcl.mac,
                                                            lfe.key.rmt.mac, 0, FALSE).l2_fib]
  IN  FreeEntry(s2, li)

del_l2_fwd_entry(st, a) ==
  LET f == find_fwd_entry(st, a)
  IN  IF ~f.found
      THEN [st |-> st, rv |-> VNET_API_ERROR_INVALID_VALUE]
      ELSE [st |-> del_l2_fwd_entry_i(st, st.hash[f.key]), rv |-> RV_OK]

\* add_l2_fwd_entry without the test of the bridge domain.
add_l2_fwd_entry_no_bd_check(st, a, sorted) ==
  LET f == find_fwd_entry(st, a)
      n == AllocEntry(st, f.key)
      li == n.li
      s1 == [n.st EXCEPT
               !.pool[li].type = IF a.is_negative THEN LISP_GPE_FWD_ENTRY_TYPE_NEGATIVE
                                 ELSE LISP_GPE_FWD_ENTRY_TYPE_NORMAL,
               !.pool[li].l2.eid_bd_id = a.bd_id,
               !.pool[li].l2.eid_bd_index = (IF a.bd_id \in DOMAIN bd_index_by_bd_id THEN bd_index_by_bd_id[a.bd_id] ELSE 0),
               !.pool[li].tenant = f.key.vni,
               !.tenants = lisp_gpe_tenant_find_or_create(@, f.key.vni)]
      s2 == lisp_gpe_fwd_entry_mk_paths(s1, li, a, sorted)
      rpaths == lisp_gpe_mk_fib_paths(s2.pool[li].paths)
      c == fib_path_list_create(s2.path_lists, rpaths)
      ch == fib_path_list_child_add(c.path_lists, c.path_list_index, li)
      s3 == IF LISP_GPE_FWD_ENTRY_TYPE_NEGATIVE # s1.pool[li].type
            THEN [s2 EXCEPT !.pool[li].l2.path_list_index = c.path_list_index,
                            !.pool[li].l2.child_index = ch.child_index,
                            !.path_lists = ch.path_lists]
            ELSE [s1 EXCEPT !.pool[li].action = a.action]
  IN  IF f.found
      THEN [st |-> st, rv |-> VNET_API_ERROR_INVALID_VALUE]
      ELSE [st |-> lisp_gpe_l2_update_fwding(s3, li), rv |-> RV_OK]

add_l2_fwd_entry(st, a, sorted) ==
  LET f == find_fwd_entry(st, a)
      n == AllocEntry(st, f.key)
      li == n.li
      s1 == [n.st EXCEPT
               !.pool[li].type = IF a.is_negative THEN LISP_GPE_FWD_ENTRY_TYPE_NEGATIVE
                                 ELSE LISP_GPE_FWD_ENTRY_TYPE_NORMAL,
               !.pool[li].l2.eid_bd_id = a.bd_id,
               !.pool[li].l2.eid_bd_index = bd_index_by_bd_id[a.bd_id],
               !.pool[li].tenant = f.key.vni,
               !.tenants = lisp_gpe_tenant_find_or_create(@, f.key.vni)]
      s2 == lisp_gpe_fwd_entry_mk_paths(s1, li, a, sorted)
      rpaths == lisp_gpe_mk_fib_paths(s2.pool[li].paths)
      c == fib_path_list_create(s2.path_lists, rpaths)
      ch == fib_path_list_child_add(c.path_lists, c.path_list_index, li)
      s3 == IF LISP_GPE_FWD_ENTRY_TYPE_NEGATIVE # s1.pool[li].type
            THEN [s2 EXCEPT !.pool[li].l2.path_list_index = c.path_list_index,
                            !.pool[li].l2.child_index = ch.child_index,
                            !.path_lists = ch.path_lists]
            ELSE [s1 EXCEPT !.pool[li].action = a.action]
  IN  IF a.bd_id \notin DOMAIN bd_index_by_bd_id
      THEN [st |-> st, rv |-> RV_MINUS_ONE]
      ELSE IF f.found
      THEN [st |-> st, rv |-> VNET_API_ERROR_INVALID_VALUE]
      ELSE [st |-> lisp_gpe_l2_update_fwding(s3, li), rv |-> RV_OK]

-----------------------------------------------------------------------------
(* The dispatcher and the flush *)

\* vnet_lisp_gpe_add_del_fwd_entry.  `sorted` is the order the sort of the
\* paths chose and `u` what a count read from a destroyed table gives.
\* add_ip_fwd_entry for a request that is not negative and has no locator
\* pair.  vec_len (a->locator_pairs) - 1 is the u32 0xffffffff, so
\* vec_validate either asks for 2^32 paths (the allocation fails and the
\* process is aborted in lisp_gpe_fwd_entry_mk_paths) or, where the index is
\* read as -1, leaves the vector empty; lisp_gpe_mk_fib_paths then reads
\* paths[0] of an empty vector and either is aborted there (ASSERT, fault)
\* or goes on with no route path, and the add returns 0.
EmptyLocatorOutcomes == {"abort_mk_paths", "abort_mk_fib_paths", "returns"}
add_ip_fwd_entry_no_locators(st, a, outcome) ==
  LET f == find_fwd_entry(st, a)
      n == AllocEntry(st, f.key)
      li == n.li
      fproto == IF IP4 = f.key.rmt.ippref.version THEN FIB_PROTOCOL_IP4 ELSE FIB_PROTOCOL_IP6
      t == fib_table_find_or_create_and_lock(n.st.fibs, fproto, a.table_id)
      s1 == [n.st EXCEPT
               !.pool[li].type = LISP_GPE_FWD_ENTRY_TYPE_NORMAL,
               !.pool[li].tenant = f.key.vni,
               !.tenants = lisp_gpe_tenant_find_or_create(@, f.key.vni),
               !.pool[li].eid_table_id = a.table_id,
               !.pool[li].eid_fib_index = t.fib_index,
               !.fibs = t.fibs]
      d == ip_dst_fib_add_route(s1.fibs, s1.pool[li].eid_fib_index, f.key.rmt.ippref)
      s2 == [s1 EXCEPT !.pool[li].src_fib_index = d.src_fib_index, !.fibs = d.fibs]
  IN  IF f.found
      THEN [st |-> st, rv |-> VNET_API_ERROR_INVALID_VALUE]
      ELSE CASE outcome = "abort_mk_paths" -> [st |-> s1, rv |-> RV_ABORT]
             [] outcome = "abort_mk_fib_paths" -> [st |-> s2, rv |-> RV_ABORT]
             [] OTHER -> add_ip_fwd_entry(st, a, <<>>)

\* vnet_lisp_gpe_add_del_fwd_entry without the test of the enable status.
vnet_lisp_gpe_add_del_fwd_entry_no_status_check(st, enabled, a, sorted, u) ==
  CASE a.rmt_eid.type = GID_ADDR_IP_PREFIX ->
         IF a.is_add THEN add_ip_fwd_entry(st, a, sorted) ELSE del_ip_fwd_entry(st, a, u)
    [] a.rmt_eid.type = GID_ADDR_MAC ->
         IF a.is_add THEN add_l2_fwd_entry(st, a, sorted) ELSE del_l2_fwd_entry(st, a)
    [] OTHER -> [st |-> st, rv |-> RV_MINUS_ONE]

vnet_lisp_gpe_add_del_fwd_entry(st, enabled, a, sorted, u) ==
  IF ~enabled
  THEN [st |-> st, rv |-> VNET_API_ERROR_LISP_DISABLED]
  ELSE CASE a.rmt_eid.type = GID_ADDR_IP_PREFIX ->
              IF a.is_add THEN add_ip_fwd_entry(st, a, sorted) ELSE del_ip_fwd_entry(st, a, u)
         [] a.rmt_eid.type = GID_ADDR_MAC ->
              IF a.is_add THEN add_l2_fwd_entry(st, a, sorted) ELSE del_l2_fwd_entry(st, a)
         [] OTHER -> [st |-> st, rv |-> RV_MINUS_ONE]

\* The body of the pool_foreach of vnet_lisp_gpe_fwd_entry_flush, from
\* pool index li on; uu[li] is what a count read from a destroyed table
\* gives while entry li is deleted.
RECURSIVE flush_loop(_, _, _)
flush_loop(st, li, uu) ==
  IF li >= MaxEntries THEN st
  ELSE IF li \notin DOMAIN st.pool THEN flush_loop(st, li + 1, uu)
  ELSE IF st.pool[li].key.rmt.type = FID_ADDR_MAC
       THEN flush_loop(del_l2_fwd_entry_i(st, li), li + 1, uu)
       ELSE flush_loop(del_ip_fwd_entry_i(st, li, uu[li]), li + 1, uu)

\* vnet_lisp_gpe_fwd_entry_flush that stops after the first element of the
\* pool.
vnet_lisp_gpe_fwd_entry_flush_first_only(st, uu) ==
  IF 0 \notin DOMAIN st.pool THEN st
  ELSE IF st.pool[0].key.rmt.type = FID_ADDR_MAC
       THEN del_l2_fwd_entry_i(st, 0)
       ELSE del_ip_fwd_entry_i(st, 0, uu[0])

vnet_lisp_gpe_fwd_entry_flush(st, uu) == flush_loop(st, 0, uu)

-----------------------------------------------------------------------------
(* The control plane as a state machine *)

State ==
  [pool |-> lisp_fwd_entry_pool, hash |-> lisp_gpe_fwd_entries, adjs |-> lisp_adjs,
   tenants |-> tenants, fibs |-> fibs, l2_fib |-> l2_fib, path_lists |-> path_lists]

SetState(st) ==
  /\ lisp_fwd_entry_pool' = st.pool
  /\ lisp_gpe_fwd_entries' = st.hash
  /\ lisp_adjs' = st.adjs
  /\ tenants' = st.tenants
  /\ fibs' = st.fibs
  /\ l2_fib' = st.l2_fib
  /\ path_lists' = st.path_lists

Request(is_add, is_negative, action, vni, table_id, bd_id, rmt_eid, lcl_eid, locator_pairs) ==
  [is_add |-> is_add, is_negative |-> is_negative, action |-> action, vni |-> vni,
   table_id |-> table_id, bd_id |-> bd_id, rmt_eid |-> rmt_eid, lcl_eid |-> lcl_eid,
   locator_pairs |-> locator_pairs]

\* The endpoint pairs of the requests: IP prefixes (the local one given
\* with either version) and MAC addresses.
IpEidPairs == {<<IpEid(rv_, ra), IpEid(lv, la)>> : rv_ \in RmtVersions, ra \in RmtAddrs, lv \in IpVersions, la \in LclAddrs}
MacEidPairs == {<<MacEid(rm), MacEid(lm)>> : rm \in RmtMacs, lm \in LclMacs}

\* What an add request is about: a normal entry with its locator pairs or
\* a negative entry with its action.
AddKinds ==
  {[is_negative |-> FALSE, action |-> LISP_NO_ACTION, locator_pairs |-> l] : l \in LocatorLists}
  \cup {[is_negative |-> TRUE, action |-> x, locator_pairs |-> <<>>] : x \in NegativeActions}

NoKey == [rmt |-> gid_to_dp_address(MacEid(0)), lcl |-> gid_to_dp_address(MacEid(0)), vni |-> 0]
\* No republish is under way.
NoUpd == [pc |-> "idle", li |-> 0, kv |-> make_mac_fib_key(0, 0, 0), before |-> -1, new |-> -1, old_val |-> -1]

NoSnap == [phase |-> "none", key |-> NoKey, card |-> 0, adjs |-> [k \in AdjKeys |-> 0], npairs |-> 0,
           lcl_version |-> "", del_lcl_version |-> ""]
NoLookup == [bd_index |-> 0, src_mac |-> 0, dst_mac |-> 0, exact |-> FALSE, wildcard |-> FALSE, result |-> 0]

\* What is recorded of a call: its name, the type of the remote endpoint,
\* whether the key of the request was in the store when the call was made,
\* and whether the bridge domain named exists.
Op(name, type, live, bd_ok) == [name |-> name, type |-> type, live |-> live, bd_ok |-> bd_ok]

\* What the count of the routes of a source table can be read as: the
\* count itself (u is not used) while the table exists, zero or not zero
\* once the table was destroyed and the count is read from freed memory.
ReadFreed(st, a) ==
  LET f == find_fwd_entry(st, a)
      lfe == st.pool[st.hash[f.key]]
  IN  IF ~a.is_add /\ a.rmt_eid.type = GID_ADDR_IP_PREFIX /\ f.found
         /\ <<ip_prefix_to_fib_prefix(lfe.key.lcl.ippref).fp_proto, lfe.src_fib_index>> \notin DOMAIN st.fibs
      THEN {0, 1}
      ELSE {0}

\* One call of vnet_lisp_gpe_add_del_fwd_entry with request a.
AddDelFwdEntry(a) ==
  \E sorted \in (IF a.is_add /\ ~a.is_negative THEN vec_sort_with_function(UnsortedPaths(a)) ELSE {<<>>}),
     u \in ReadFreed(State, a) :
    LET f == find_fwd_entry(State, a)
        r == vnet_lisp_gpe_add_del_fwd_entry(State, lisp_gpe_enabled, a, sorted, u)
    IN  /\ (a.is_add /\ r.rv = RV_OK) => Cardinality(DOMAIN lisp_fwd_entry_pool) < MaxEntries
        /\ SetState(r.st)
        /\ rv' = r.rv
        /\ op' = Op(IF a.is_add THEN "add" ELSE "del", a.rmt_eid.type, f.found,
                    (a.is_add /\ a.rmt_eid.type = GID_ADDR_MAC) => a.bd_id \in DOMAIN bd_index_by_bd_id)
        /\ snap' = IF r.rv # RV_OK THEN NoSnap
                   ELSE IF a.is_add
                   THEN [phase |-> "added", key |-> f.key,
                         card |-> Cardinality(DOMAIN lisp_gpe_fwd_entries),
                         adjs |-> lisp_adjs,
                         npairs |-> IF a.is_negative THEN 0 ELSE Len(a.locator_pairs),
                         lcl_version |-> IF a.rmt_eid.type = GID_ADDR_IP_PREFIX
                                         THEN a.lcl_eid.ippref.version ELSE "",
                         del_lcl_version |-> ""]
                   ELSE IF snap.phase = "added" /\ snap.key = f.key
                   THEN [snap EXCEPT !.phase = "deleted",
                                     !.del_lcl_version = IF a.rmt_eid.type = GID_ADDR_IP_PREFIX
                                                         THEN a.lcl_eid.ippref.version ELSE ""]
                   ELSE NoSnap
        /\ lkup' = NoLookup
        /\ upd' = NoUpd
        /\ UNCHANGED <<lisp_gpe_enabled, pb, mpls_vars>>

AddIp == \E p \in IpEidPairs, vni \in VNIs, t \in TableIds, k \in AddKinds :
  AddDelFwdEntry(Request(TRUE, k.is_negative, k.action, vni, t, 0, p[1], p[2], k.locator_pairs))

DelIp == \E p \in IpEidPairs, vni \in VNIs, t \in TableIds :
  AddDelFwdEntry(Request(FALSE, FALSE, LISP_NO_ACTION, vni, t, 0, p[1], p[2], <<>>))

AddL2 == \E p \in MacEidPairs, vni \in VNIs, bd \in BdIds, k \in AddKinds :
  AddDelFwdEntry(Request(TRUE, k.is_negative, k.action, vni, 0, bd, p[1], p[2], k.locator_pairs))

DelL2 == \E p \in MacEidPairs, vni \in VNIs :
  AddDelFwdEntry(Request(FALSE, FALSE, LISP_NO_ACTION, vni, 0, 0, p[1], p[2], <<>>))

\* One call of vnet_lisp_gpe_fwd_entry_flush.
Flush ==
  \E uu \in [0..(MaxEntries - 1) -> {0, 1}] :
    /\ SetState(vnet_lisp_gpe_fwd_entry_flush(State, uu))
    /\ rv' = RV_OK
    /\ op' = Op("flush", "", FALSE, TRUE)
    /\ snap' = [NoSnap EXCEPT !.phase = "flushed",
                              !.card = Cardinality(DOMAIN lisp_fwd_entry_pool),
                              !.adjs = lisp_adjs]
    /\ lkup' = NoLookup
    /\ upd' = NoUpd
    /\ UNCHANGED <<lisp_gpe_enabled, pb, mpls_vars>>

\* One call of vnet_lisp_gpe_add_del_fwd_entry that adds an IP-keyed entry
\* that is not negative and has no locator pair.
AddIpNoLocators ==
  \E p \in IpEidPairs, vni \in VNIs, t \in TableIds, outcome \in EmptyLocatorOutcomes :
    LET a == Request(TRUE, FALSE, LISP_NO_ACTION, vni, t, 0, p[1], p[2], <<>>)
        f == find_fwd_entry(State, a)
        r == add_ip_fwd_entry_no_locators(State, a, outcome)
    IN  /\ lisp_gpe_enabled
        /\ ~f.found => Cardinality(DOMAIN lisp_fwd_entry_pool) < MaxEntries
        /\ SetState(r.st)
        /\ rv' = r.rv
        /\ op' = Op("add_no_locators", a.rmt_eid.type, f.found, TRUE)
        /\ snap' = NoSnap
        /\ lkup' = NoLookup
        /\ upd' = NoUpd
        /\ UNCHANGED <<lisp_gpe_enabled, pb, mpls_vars>>

\* A path list computes its forwarding again and walks its children.
BackWalk ==
  \E pli \in DOMAIN path_lists :
    LET s0 == [State EXCEPT !.path_lists = fib_path_list_recompute(@, pli)]
        r == fib_walk_children([st |-> s0, rc |-> FIB_NODE_BACK_WALK_CONTINUE], pli, 0)
    IN  /\ SetState(r.st)
        /\ rv' = r.rc
        /\ op' = Op("back_walk", "", FALSE, TRUE)
        /\ snap' = NoSnap
        /\ lkup' = NoLookup
        /\ upd' = NoUpd
        /\ UNCHANGED <<lisp_gpe_enabled, pb, mpls_vars>>

\* LISP-GPE is enabled or disabled.
EnableDisable ==
  \E en \in BOOLEAN :
    /\ lisp_gpe_enabled' = en
    /\ rv' = RV_OK
    /\ op' = Op("enable_disable", "", FALSE, TRUE)
    /\ snap' = NoSnap
    /\ lkup' = NoLookup
    /\ upd' = NoUpd
    /\ UNCHANGED <<lisp_state, pb, mpls_vars>>

\* One call of lisp_l2_fib_lookup by the data plane, for a destination MAC
\* that entries are added with, in a bridge domain with or without entries.
LookupBds == {1, 2}
LookupMacs == {0, 1, 2}
L2Lookup ==
  \E bd_index \in LookupBds, src_mac \in LookupMacs, dst_mac \in RmtMacs :
    /\ lkup' = [bd_index |-> bd_index, src_mac |-> src_mac, dst_mac |-> dst_mac,
                exact |-> make_mac_fib_key(bd_index, src_mac, dst_mac) \in DOMAIN l2_fib,
                wildcard |-> make_mac_fib_key(bd_index, 0, dst_mac) \in DOMAIN l2_fib,
                result |-> lisp_l2_fib_lookup(l2_fib, bd_index, src_mac, dst_mac)]
    /\ rv' = RV_OK
    /\ op' = Op("lookup", "", FALSE, TRUE)
    /\ snap' = NoSnap
    /\ upd' = NoUpd
    /\ UNCHANGED <<lisp_gpe_enabled, lisp_state, pb, mpls_vars>>

\* After lisp_gpe_fwd_entry_init: no entry, the default table of each
\* protocol (table id 0, at index 0) locked by its owner, an empty L2 table.
\* BV (clib_bihash_search): whether the key is in the table, and its value.
clib_bihash_search(l2, kv) ==
  IF kv \in DOMAIN l2 THEN [rv |-> 0, value |-> l2[kv]] ELSE [rv |-> -1, value |-> -1]

\* The control plane is between two requests.
ControlIdle == upd.pc \in {"idle", "done"}

\* A path list has computed its forwarding again and the back walk has
\* reached a child: lisp_gpe_l2_update_fwding takes the contribution of the
\* path list into the entry and makes the key of the entry.
RepublishBegin ==
  /\ ControlIdle
  /\ \E pli \in DOMAIN path_lists : \E ci \in DOMAIN path_lists[pli].children :
       LET li == path_lists[pli].children[ci]
           pls == fib_path_list_recompute(path_lists, pli)
           contributed == fib_path_list_contribute_forwarding(pls, pli)
           lfe == lisp_fwd_entry_pool[li]
           kv == make_mac_fib_key(lfe.l2.eid_bd_index, lfe.key.lcl.mac, lfe.key.rmt.mac)
       IN  /\ path_lists' = pls
           /\ lisp_fwd_entry_pool' = [lisp_fwd_entry_pool EXCEPT ![li].l2.dpo = contributed]
           /\ upd' = [pc |-> "search", li |-> li, kv |-> kv,
                      before |-> clib_bihash_search(l2_fib, kv).value,
                      new |-> contributed.dpoi_index, old_val |-> -1]
  /\ rv' = RV_OK
  /\ op' = Op("republish", "", FALSE, TRUE)
  /\ snap' = NoSnap
  /\ lkup' = NoLookup
  /\ UNCHANGED <<lisp_gpe_enabled, lisp_gpe_fwd_entries, lisp_adjs, tenants, fibs, l2_fib,
                 pb, mpls_vars>>

\* lisp_l2_fib_add_del_entry, first table operation: the key is searched
\* and the value it has is kept to be returned.
RepublishSearch ==
  /\ upd.pc = "search"
  /\ upd' = [upd EXCEPT !.pc = "add", !.old_val = clib_bihash_search(l2_fib, upd.kv).value]
  /\ lkup' = NoLookup
  /\ UNCHANGED <<lisp_gpe_enabled, lisp_state, rv, op, snap, pb, mpls_vars>>

\* lisp_l2_fib_add_del_entry, second table operation: the key is added
\* with the new value.
RepublishAdd ==
  /\ upd.pc = "add"
  /\ LET lfe == lisp_fwd_entry_pool[upd.li]
     IN  l2_fib' = lisp_l2_fib_add_del_entry(l2_fib, lfe.l2.eid_bd_index, lfe.key.lcl.mac,
                                             lfe.key.rmt.mac, upd.new, TRUE).l2_fib
  /\ upd' = [upd EXCEPT !.pc = "done"]
  /\ lkup' = NoLookup
  /\ UNCHANGED <<lisp_gpe_enabled, lisp_fwd_entry_pool, lisp_gpe_fwd_entries, lisp_adjs, tenants,
                 fibs, path_lists, rv, op, snap, pb, mpls_vars>>

\* A forwarding context searches the table for a key, at any moment of a
\* republish.
TableRead ==
  /\ upd.pc # "idle"
  /\ \E bd_index \in LookupBds, src_mac \in LclMacs, dst_mac \in RmtMacs :
      LET r == clib_bihash_search(l2_fib, make_mac_fib_key(bd_index, src_mac, dst_mac))
      IN  /\ lkup' = [bd_index |-> bd_index, src_mac |-> src_mac, dst_mac |-> dst_mac,
                      exact |-> r.rv = 0,
                      wildcard |-> make_mac_fib_key(bd_index, 0, dst_mac) \in DOMAIN l2_fib,
                      result |-> r.value]
          /\ op' = Op("table_read", "", FALSE, TRUE)
          /\ UNCHANGED <<lisp_gpe_enabled, lisp_state, rv, snap, upd, pb, mpls_vars>>

InitLisp ==
  /\ lisp_gpe_enabled = TRUE
  /\ lisp_fwd_entry_pool = EmptyMap
  /\ lisp_gpe_fwd_entries = EmptyMap
  /\ lisp_adjs = [k \in AdjKeys |-> 0]
  /\ tenants = {}
  /\ fibs = [k \in {<<FIB_PROTOCOL_IP4, 0>>, <<FIB_PROTOCOL_IP6, 0>>} |->
               [ft_table_id |-> 0, ft_locks |-> 1, routes |-> EmptyMap]]
  /\ l2_fib = EmptyMap
  /\ path_lists = EmptyMap
  /\ rv = RV_OK
  /\ op = Op("init", "", FALSE, TRUE)
  /\ snap = NoSnap
  /\ lkup = NoLookup
  /\ upd = NoUpd

-----------------------------------------------------------------------------
(* The path builder on its own *)

\* The locator pairs given to the path builder: priorities 10 and 20,
\* weights 0, 1 and 3, in lists of 1..MaxPaths pairs in any order.
PathPairs == {LocatorPair(p, w, 1) : p \in {10, 20}, w \in {0, 1, 3}}
PathLists == UNION {[1..n -> PathPairs] : n \in 1..MaxPaths}

NoPb == [pc |-> "idle", locator_pairs |-> <<>>, paths |-> <<>>, rpaths |-> <<>>]

\* lisp_gpe_fwd_entry_mk_paths on the locator pairs of a request: one path
\* per pair, then the sort by priority.
MkPaths ==
  /\ pb.pc = "request"
  /\ \E sorted \in vec_sort_with_function(
                     mk_paths_loop([paths |-> <<>>, adjs |-> lisp_adjs], pb.locator_pairs, 1, 1).paths) :
       pb' = [pb EXCEPT !.pc = "sorted", !.paths = sorted]
  /\ UNCHANGED <<lisp_vars, lkup, mpls_vars>>

\* lisp_gpe_mk_fib_paths on the sorted paths, as create_fib_entries and
\* lisp_gpe_l2_update_fwding call it.
MkFibPaths ==
  /\ pb.pc = "sorted"
  /\ pb' = [pb EXCEPT !.pc = "built", !.rpaths = lisp_gpe_mk_fib_paths(pb.paths)]
  /\ UNCHANGED <<lisp_vars, lkup, mpls_vars>>

-----------------------------------------------------------------------------
(* The MPLS output node (mpls_output.c) *)

IP4_ERROR_NONE == "IP4_ERROR_NONE"
IP4_ERROR_MTU_EXCEEDED == "IP4_ERROR_MTU_EXCEEDED"
MPLS_OUTPUT_NEXT_DROP == "error-drop"

\* sizeof (ethernet_header_t)
sizeof_ethernet_header_t == 14

\* The adjacencies packets are sent with, by adjacency index: an Ethernet
\* rewrite and a longer one, with the same maximum L3 packet size.
adj_pool ==
  [i \in {1, 2} |->
     [rewrite_header |->
        [data_bytes |-> IF i = 1 THEN sizeof_ethernet_header_t ELSE sizeof_ethernet_header_t + 4,
         max_l3_packet_bytes |-> 64,
         sw_if_index |-> 4 + i,
         next_index |-> IF i = 1 THEN "interface-output" ELSE "adj-midchain-tx"]]]

adj_get(adj_index) == adj_pool[adj_index]

\* A buffer as it reaches the node: data offset and length of the first
\* segment, length of the rest of the chain, the adjacency to send with;
\* rewrite_bytes is the number of bytes of rewrite written in front of the
\* data.
Buffer(current_length, rest, adj_index) ==
  [current_data |-> 32, current_length |-> current_length,
   total_length_not_including_first_buffer |-> rest,
   adj_index_tx |-> adj_index, sw_if_index_tx |-> 0, error |-> "", rewrite_bytes |-> 0]

BufferInputs == {Buffer(l, r, a) : l \in {50, 60, 64, 65}, r \in {0, 8}, a \in DOMAIN adj_pool}

\* vlib_buffer_length_in_chain: the length of the whole chain of segments.
vlib_buffer_length_in_chain(b) == b.current_length + b.total_length_not_including_first_buffer

\* vnet_rewrite_one_header: the rewrite string of the adjacency is copied
\* in front of the current data; offset and length are not touched.
vnet_rewrite_one_header(adj0, b) == [b EXCEPT !.rewrite_bytes = adj0.rewrite_header.data_bytes]

\* The body of the loop with the MTU check made on the length the chain
\* has with the rewrite.
mpls_output_inline_x1_len_with_rewrite(p0, midchain) ==
  LET adj0 == adj_get(p0.adj_index_tx)
      p1 == vnet_rewrite_one_header(adj0, p0)
      rw_len0 == adj0.rewrite_header.data_bytes
      bytes == IF rw_len0 > sizeof_ethernet_header_t
               THEN rw_len0 - sizeof_ethernet_header_t ELSE 0
      error0 == IF vlib_buffer_length_in_chain(p1) + rw_len0 > adj0.rewrite_header.max_l3_packet_bytes
                THEN IP4_ERROR_MTU_EXCEEDED
                ELSE IP4_ERROR_NONE
      p2 == [p1 EXCEPT !.error = error0]
  IN  IF error0 = IP4_ERROR_NONE
      THEN [p0 |-> [p2 EXCEPT !.current_data = @ - rw_len0,
                              !.current_length = @ + rw_len0,
                              !.sw_if_index_tx = adj0.rewrite_header.sw_if_index],
            next0 |-> adj0.rewrite_header.next_index,
            bytes |-> bytes,
            fixup |-> midchain]
      ELSE [p0 |-> p2, next0 |-> MPLS_OUTPUT_NEXT_DROP, bytes |-> bytes, fixup |-> FALSE]

\* The body of the loop with the buffer adjusted whatever the MTU check
\* found.
mpls_output_inline_x1_always_adjust(p0, midchain) ==
  LET adj0 == adj_get(p0.adj_index_tx)
      p1 == vnet_rewrite_one_header(adj0, p0)
      rw_len0 == adj0.rewrite_header.data_bytes
      bytes == IF rw_len0 > sizeof_ethernet_header_t
               THEN rw_len0 - sizeof_ethernet_header_t ELSE 0
      error0 == IF vlib_buffer_length_in_chain(p1) > adj0.rewrite_header.max_l3_packet_bytes
                THEN IP4_ERROR_MTU_EXCEEDED
                ELSE IP4_ERROR_NONE
      p2 == [p1 EXCEPT !.error = error0,
                       !.current_data = @ - rw_len0,
                       !.current_length = @ + rw_len0,
                       !.sw_if_index_tx = adj0.rewrite_header.sw_if_index]
  IN  IF error0 = IP4_ERROR_NONE
      THEN [p0 |-> p2, next0 |-> adj0.rewrite_header.next_index, bytes |-> bytes, fixup |-> midchain]
      ELSE [p0 |-> p2, next0 |-> MPLS_OUTPUT_NEXT_DROP, bytes |-> bytes, fixup |-> FALSE]

\* The body of the loop with the fixup function called for a buffer that
\* exceeds the MTU as well.
mpls_output_inline_x1_fixup_on_drop(p0, midchain) ==
  LET adj_index0 == p0.adj_index_tx
      adj0 == adj_get(adj_index0)
      p1 == vnet_rewrite_one_header(adj0, p0)
      rw_len0 == adj0.rewrite_header.data_bytes
      bytes == IF rw_len0 > sizeof_ethernet_header_t
               THEN rw_len0 - sizeof_ethernet_header_t ELSE 0
      error0 == IF vlib_buffer_length_in_chain(p1) > adj0.rewrite_header.max_l3_packet_bytes
                THEN IP4_ERROR_MTU_EXCEEDED
                ELSE IP4_ERROR_NONE
      p2 == [p1 EXCEPT !.error = error0]
  IN  IF error0 = IP4_ERROR_NONE
      THEN [p0 |-> [p2 EXCEPT !.current_data = @ - rw_len0,
                              !.current_length = @ + rw_len0,
                              !.sw_if_index_tx = adj0.rewrite_header.sw_if_index],
            next0 |-> adj0.rewrite_header.next_index,
            bytes |-> bytes,
            fixup |-> midchain]
      ELSE [p0 |-> p2, next0 |-> MPLS_OUTPUT_NEXT_DROP, bytes |-> bytes, fixup |-> midchain]

\* The body of the loop of mpls_output_inline for buffer p0: the buffer
\* after it, the next it is enqueued to, the bytes added to the adjacency
\* counter and whether the fixup function of the adjacency was called.
mpls_output_inline_x1(p0, midchain) ==
  LET adj_index0 == p0.adj_index_tx
      adj0 == adj_get(adj_index0)
      p1 == vnet_rewrite_one_header(adj0, p0)
      rw_len0 == adj0.rewrite_header.data_bytes
      bytes == IF rw_len0 > sizeof_ethernet_header_t
               THEN rw_len0 - sizeof_ethernet_header_t ELSE 0
      error0 == IF vlib_buffer_length_in_chain(p1) > adj0.rewrite_header.max_l3_packet_bytes
                THEN IP4_ERROR_MTU_EXCEEDED
                ELSE IP4_ERROR_NONE
      p2 == [p1 EXCEPT !.error = error0]
  IN  IF error0 = IP4_ERROR_NONE
      THEN [p0 |-> [p2 EXCEPT !.current_data = @ - rw_len0,
                              !.current_length = @ + rw_len0,
                              !.sw_if_index_tx = adj0.rewrite_header.sw_if_index],
            next0 |-> adj0.rewrite_header.next_index,
            bytes |-> bytes,
            fixup |-> midchain]
      ELSE [p0 |-> p2, next0 |-> MPLS_OUTPUT_NEXT_DROP, bytes |-> bytes, fixup |-> FALSE]

\* The next nodes of the node: the drop node and the next nodes the
\* adjacencies name.
MplsNexts == {MPLS_OUTPUT_NEXT_DROP} \cup {adj_pool[i].rewrite_header.next_index : i \in DOMAIN adj_pool}

\* vlib_get_next_frame: the frame of next node n that is being filled, a
\* new one when the last is full.
vlib_get_next_frame(frames, n) ==
  IF Len(frames[n][Len(frames[n])]) >= VLIB_FRAME_SIZE
  THEN [frames EXCEPT ![n] = Append(@, <<>>)]
  ELSE frames

\* to_next[0] = bi; to_next += 1; n_left_to_next -= 1
to_next_put(frames, n, bi) == [frames EXCEPT ![n][Len(frames[n])] = Append(@, bi)]

\* vlib_put_next_frame (..., n_left_to_next + 1): the last buffer index
\* written to the frame is not part of it.
to_next_undo(frames, n) ==
  [frames EXCEPT ![n][Len(frames[n])] = SubSeq(@, 1, Len(@) - 1)]

\* vlib_validate_buffer_enqueue_x1: bi0 was written to the frame of
\* next_index; when next0 is another node it is taken back and written to
\* the frame of next0, which the loop fills from then on.
vlib_validate_buffer_enqueue_x1(frames, ni, bi0, next0) ==
  IF next0 # ni
  THEN [next_frames |-> to_next_put(vlib_get_next_frame(to_next_undo(frames, ni), next0), next0, bi0),
        next_index |-> next0]
  ELSE [next_frames |-> frames, next_index |-> ni]

\* The turn of the loop that enqueues no buffer that goes to the drop node.
mpls_output_enqueue_no_drop(frames, ni, pi0, next0) ==
  IF next0 = MPLS_OUTPUT_NEXT_DROP
  THEN [next_frames |-> frames, next_index |-> ni]
  ELSE vlib_validate_buffer_enqueue_x1(to_next_put(vlib_get_next_frame(frames, ni), ni, pi0), ni, pi0, next0)

\* One turn of the loop on the frames of the next nodes: a frame with room
\* is had (the outer loop fetches one when none is left), pi0 is written to
\* it and the enqueue is validated against next0.
mpls_output_enqueue(frames, ni, pi0, next0) ==
  vlib_validate_buffer_enqueue_x1(to_next_put(vlib_get_next_frame(frames, ni), ni, pi0), ni, pi0, next0)

\* mpls_output / mpls_midchain is called with a frame of 1..MaxFrame
\* buffers.  A call reads nothing an earlier call left, so one call is
\* followed from the idle node.
MplsDispatch ==
  /\ mpls_pc = "idle"
  /\ \E mc \in BOOLEAN, n \in 1..MaxFrame :
       \E bufs \in [1..n -> BufferInputs] :
         /\ is_midchain' = mc
         /\ from_frame' = [i \in 1..n |-> i]
         /\ buffers' = bufs
         /\ frame_in' = bufs
  /\ from' = 1
  /\ enqueued' = <<>>
  /\ fixups' = <<>>
  /\ adjacency_counters' = 0
  /\ pkts_encap' = 0
  /\ \E ni \in MplsNexts, used \in 0..(VLIB_FRAME_SIZE - 1) :
       /\ next_index' = ni
       /\ next_frames' = [n \in MplsNexts |-> << [i \in 1..used |-> 0] >>]
  /\ mpls_pc' = "loop"
  /\ UNCHANGED <<lisp_vars, lkup, pb>>

\* One turn of the loop: the next buffer of the frame is rewritten,
\* checked and enqueued.
MplsStep ==
  /\ mpls_pc = "loop"
  /\ from <= Len(from_frame)
  /\ LET pi0 == from_frame[from]
         r == mpls_output_inline_x1(buffers[pi0], is_midchain)
     IN  /\ buffers' = [buffers EXCEPT ![pi0] = r.p0]
         /\ adjacency_counters' = adjacency_counters + r.bytes
         /\ fixups' = IF r.fixup THEN Append(fixups, pi0) ELSE fixups
         /\ enqueued' = Append(enqueued, <<pi0, r.next0, r.p0.error, r.fixup>>)
         /\ LET e == mpls_output_enqueue(next_frames, next_index, pi0, r.next0)
            IN  /\ next_frames' = e.next_frames
                /\ next_index' = e.next_index
  /\ from' = from + 1
  /\ UNCHANGED <<lisp_vars, lkup, pb, mpls_pc, is_midchain, from_frame, frame_in, pkts_encap>>

\* The frame is exhausted: the node counter is incremented and the node
\* returns.
MplsReturn ==
  /\ mpls_pc = "loop"
  /\ from > Len(from_frame)
  /\ pkts_encap' = pkts_encap + Len(from_frame)
  /\ mpls_pc' = "done"
  /\ UNCHANGED <<lisp_vars, lkup, pb, is_midchain, from_frame, from, buffers, frame_in,
                 enqueued, fixups, adjacency_counters, next_index, next_frames>>

InitMpls ==
  /\ mpls_pc = "idle"
  /\ is_midchain = FALSE
  /\ from_frame = <<>>
  /\ from = 1
  /\ buffers = <<>>
  /\ frame_in = <<>>
  /\ enqueued = <<>>
  /\ fixups = <<>>
  /\ adjacency_counters = 0
  /\ pkts_encap = 0
  /\ next_index = MPLS_OUTPUT_NEXT_DROP
  /\ next_frames = [n \in MplsNexts |-> << <<>> >>]

-----------------------------------------------------------------------------
(* Specifications *)

vars == <<lisp_vars, lkup, pb, mpls_vars>>

Init == InitLisp /\ pb = NoPb /\ InitMpls

\* The control plane: adds, deletes and flushes of IP-keyed and MAC-keyed
\* entries.
Next == AddIp \/ DelIp \/ AddL2 \/ DelL2 \/ Flush

Spec == Init /\ [][Next]_vars

\* The L2 table: adds and deletes of MAC-keyed entries by the control
\* plane, lookups by the data plane.
\* Adds and deletes while LISP-GPE is enabled and disabled.
NextAdmin == AddIp \/ DelIp \/ AddL2 \/ DelL2 \/ EnableDisable

SpecAdmin == Init /\ [][NextAdmin]_vars

\* Adds with and without locator pairs; nothing runs once the process was
\* aborted.
NextNoLocators ==
  \/ (rv # RV_ABORT /\ AddIpNoLocators)
  \/ (rv # RV_ABORT /\ AddIp)
  \/ (rv # RV_ABORT /\ DelIp)

SpecNoLocators == Init /\ [][NextNoLocators]_vars

\* MAC-keyed entries and the back walks of their path lists.
NextWalk == AddL2 \/ DelL2 \/ BackWalk

SpecWalk == Init /\ [][NextWalk]_vars

\* MAC-keyed entries, the republish of their L2 table keys one table
\* operation at a time, and searches of the table by forwarding contexts in
\* between.  Requests wait for a republish under way to finish.
NextPublish ==
  \/ (ControlIdle /\ AddL2)
  \/ (ControlIdle /\ DelL2)
  \/ RepublishBegin
  \/ RepublishSearch
  \/ RepublishAdd
  \/ TableRead

SpecPublish == Init /\ [][NextPublish]_vars

NextL2 == AddL2 \/ DelL2 \/ L2Lookup

SpecL2 == Init /\ [][NextL2]_vars

\* The path builder given each list of locator pairs.
InitPaths ==
  /\ InitLisp
  /\ pb \in {[NoPb EXCEPT !.pc = "request", !.locator_pairs = l] : l \in PathLists}
  /\ InitMpls

NextPaths == MkPaths \/ MkFibPaths

SpecPaths == InitPaths /\ [][NextPaths]_vars

\* The MPLS output node given a frame.
\* The node function runs to its return once it was called.
SpecMplsFair ==
  Init /\ [][MplsDispatch \/ MplsStep \/ MplsReturn]_vars /\ WF_vars(MplsStep) /\ WF_vars(MplsReturn)

NextMpls == MplsDispatch \/ MplsStep \/ MplsReturn

SpecMpls == Init /\ [][NextMpls]_vars

-----------------------------------------------------------------------------
(* Add and delete *)

\* C1: when the delete of a key directly follows the add of that key, the
\* store holds as many entries as before the add and every adjacency has
\* the lock count it had before the add.
C1_AddDeleteRoundTrip ==
  snap.phase = "deleted" =>
    /\ Cardinality(DOMAIN lisp_gpe_fwd_entries) = snap.card
    /\ Cardinality(DOMAIN lisp_fwd_entry_pool) = snap.card
    /\ lisp_adjs = snap.adjs

\* An IP-keyed entry with two locator pairs was added next to a live entry
\* that holds locks on adjacencies, and was then deleted.
C1_Witness ==
  /\ snap.phase = "deleted"
  /\ op.type = GID_ADDR_IP_PREFIX
  /\ snap.npairs = 2
  /\ snap.card = 1
  /\ \E k \in AdjKeys : snap.adjs[k] > 0

\* What deleting a key that is not in the store returns: the answer of
\* del_ip_fwd_entry in the store that holds no entry.
RvOfDeleteUnknown ==
  del_ip_fwd_entry([pool |-> EmptyMap, hash |-> EmptyMap, adjs |-> [k \in AdjKeys |-> 0],
                    tenants |-> {}, fibs |-> EmptyMap, l2_fib |-> EmptyMap, path_lists |-> EmptyMap],
                   Request(FALSE, FALSE, LISP_NO_ACTION, 1, 0, 0, IpEid(IP6, 1), IpEid(IP6, 1), <<>>),
                   0).rv

\* C2 as claimed: an add of a key that is in the store is answered with an
\* error of its own, which is not the one a delete of an unknown key gets,
\* and changes nothing.
C2_DuplicateErrorIsDistinct ==
  [][(op'.name = "add" /\ op'.live) =>
       /\ rv' # RV_OK
       /\ rv' # RvOfDeleteUnknown
       /\ UNCHANGED lisp_state]_vars

\* C2, amended: an add of a key that is in the store changes nothing and
\* returns VNET_API_ERROR_INVALID_VALUE, which is what a delete of an
\* unknown key returns too; -1 when the add is MAC-keyed and names a bridge
\* domain that does not exist, and the LISP-disabled error when LISP is
\* disabled.
C2_DuplicateAddRejected ==
  [][(op'.name = "add" /\ op'.live) =>
       /\ UNCHANGED lisp_state
       /\ rv' = IF ~lisp_gpe_enabled THEN VNET_API_ERROR_LISP_DISABLED
                ELSE IF ~op'.bd_ok THEN RV_MINUS_ONE
                ELSE VNET_API_ERROR_INVALID_VALUE
       /\ VNET_API_ERROR_INVALID_VALUE = RvOfDeleteUnknown]_vars

\* An IP-keyed add of a key that is in the store was answered, with two
\* entries live.
C2_Witness ==
  /\ op.name = "add" /\ op.live /\ op.type = GID_ADDR_IP_PREFIX
  /\ rv = VNET_API_ERROR_INVALID_VALUE
  /\ Cardinality(DOMAIN lisp_gpe_fwd_entries) = 2

\* C3: with LISP enabled, a delete of a key that is not in the store
\* returns the error of deletes (VNET_API_ERROR_INVALID_VALUE) and changes
\* nothing.
C3_DeleteUnknownRejected ==
  [][(op'.name = "del" /\ ~op'.live /\ lisp_gpe_enabled) =>
       /\ rv' = VNET_API_ERROR_INVALID_VALUE
       /\ UNCHANGED lisp_state]_vars

\* An IP-keyed delete of a key that is not in the store was answered while
\* another entry, with locks on adjacencies, is live.
C3_Witness ==
  /\ op.name = "del" /\ ~op.live /\ op.type = GID_ADDR_IP_PREFIX
  /\ rv = VNET_API_ERROR_INVALID_VALUE
  /\ Cardinality(DOMAIN lisp_gpe_fwd_entries) = 1
  /\ \E k \in AdjKeys : lisp_adjs[k] > 0

-----------------------------------------------------------------------------
(* The path builder *)

\* The lowest priority value of the paths.
MinPriority(paths) ==
  CHOOSE m \in {paths[i].priority : i \in DOMAIN paths} :
    \A i \in DOMAIN paths : m <= paths[i].priority

\* C4: the route paths made for an entry are made from exactly the paths
\* whose priority is the lowest priority value of the entry; a path of a
\* higher priority value gets no route path.
C4_OnlyBestPriority ==
  pb.pc = "built" =>
    {i \in DOMAIN pb.rpaths : pb.rpaths[i] # ZeroRoutePath}
      = {i \in DOMAIN pb.paths : pb.paths[i].priority = MinPriority(pb.paths)}

\* C5: every route path has a weight of at least 1: the weight of its path,
\* or 1 when that weight is 0.
C5_WeightAtLeastOne ==
  pb.pc = "built" =>
    \A i \in DOMAIN pb.rpaths :
      /\ pb.rpaths[i].frp_weight >= 1
      /\ pb.rpaths[i].frp_weight = IF pb.paths[i].weight = 0 THEN 1 ELSE pb.paths[i].weight

\* Route paths were made from paths of one priority, one of weight 0 and
\* one of weight 3.
C5_Witness ==
  /\ pb.pc = "built"
  /\ \E i, j \in DOMAIN pb.paths :
       /\ pb.paths[i].weight = 0 /\ pb.rpaths[i].frp_weight = 1
       /\ pb.paths[j].weight = 3 /\ pb.rpaths[j].frp_weight = 3
       /\ pb.paths[i].priority = pb.paths[j].priority

-----------------------------------------------------------------------------
(* The L2 table *)

\* C6: a lookup whose exact key (bd, dst, src) is not in the table returns
\* the value of the key (bd, dst, 0) when that key is in the table, and
\* the index of the load balance of the misses when it is not.
C6_LookupFallback ==
  (op.name = "lookup" /\ ~lkup.exact) =>
    lkup.result = IF lkup.wildcard
                  THEN l2_fib[make_mac_fib_key(lkup.bd_index, 0, lkup.dst_mac)]
                  ELSE l2_lb_cp_lkup.dpoi_index

\* A lookup with a source MAC that is not zero found no exact key and
\* returned the value of the key with the source zeroed, which is the load
\* balance of a normal entry.
C6_Witness ==
  /\ op.name = "lookup" /\ ~lkup.exact /\ lkup.wildcard /\ lkup.src_mac # 0
  /\ lkup.result = l2_fib[make_mac_fib_key(lkup.bd_index, 0, lkup.dst_mac)]
  /\ lkup.result # l2_lb_cp_lkup.dpoi_index

\* C7: a lookup with a source MAC that is not zero whose exact key
\* (bd, dst, src) is in the table returns the value of that key.
C7_LookupExact ==
  (op.name = "lookup" /\ lkup.exact /\ lkup.src_mac # 0) =>
    lkup.result = l2_fib[make_mac_fib_key(lkup.bd_index, lkup.src_mac, lkup.dst_mac)]

-----------------------------------------------------------------------------
(* Destination and source routes *)

\* The table a route of prefix p is kept in, given the index of the table.
TableOf(p, fib_index) == <<ip_prefix_to_fib_prefix(p).fp_proto, fib_index>>

\* C8: when the routes of an IP-keyed entry are withdrawn and the source
\* table of the entry exists, the destination route is removed and the
\* source table released if and only if the source table has no route left
\* once the source route is removed; then an exact-match lookup of the
\* destination prefix misses.  While a source route is left, the
\* destination route and the source table stay as they are.
C8_WithdrawLastSourceRoute ==
  [][\A li \in (DOMAIN lisp_fwd_entry_pool) \ (DOMAIN lisp_fwd_entry_pool') :
       LET lfe == lisp_fwd_entry_pool[li]
           src == TableOf(lfe.key.lcl.ippref, lfe.src_fib_index)
           dst == TableOf(lfe.key.rmt.ippref, lfe.eid_fib_index)
           src_prefix == ip_prefix_to_fib_prefix(lfe.key.lcl.ippref)
           dst_prefix == ip_prefix_to_fib_prefix(lfe.key.rmt.ippref)
       IN  (op'.name = "del" /\ lfe.key.rmt.type = FID_ADDR_IP_PREF /\ src \in DOMAIN fibs) =>
             IF (DOMAIN fibs[src].routes) \ {src_prefix} = {}
             THEN /\ ~fib_table_lookup_exact_match(fibs', dst[2], dst_prefix)
                  /\ src \notin DOMAIN fibs'
             ELSE /\ fib_table_lookup_exact_match(fibs', dst[2], dst_prefix)
                  /\ fibs'[dst].routes[dst_prefix] = fibs[dst].routes[dst_prefix]
                  /\ src \in DOMAIN fibs'
                  /\ fibs'[src].ft_locks = fibs[src].ft_locks
                  /\ DOMAIN fibs'[src].routes = (DOMAIN fibs[src].routes) \ {src_prefix}]_vars

\* An IP-keyed entry was deleted and another is live whose source route is
\* in its source table, under the destination route that leads to it.
C8_Witness ==
  /\ op.name = "del" /\ op.live /\ op.type = GID_ADDR_IP_PREFIX /\ rv = RV_OK
  /\ \E li \in DOMAIN lisp_fwd_entry_pool :
       LET lfe == lisp_fwd_entry_pool[li]
           src == TableOf(lfe.key.lcl.ippref, lfe.src_fib_index)
           dst == TableOf(lfe.key.rmt.ippref, lfe.eid_fib_index)
       IN  /\ lfe.key.rmt.type = FID_ADDR_IP_PREF
           /\ src \in DOMAIN fibs
           /\ ip_prefix_to_fib_prefix(lfe.key.lcl.ippref) \in DOMAIN fibs[src].routes
           /\ fib_table_lookup_exact_match(fibs, dst[2], ip_prefix_to_fib_prefix(lfe.key.rmt.ippref))
           /\ fibs[dst].routes[ip_prefix_to_fib_prefix(lfe.key.rmt.ippref)].fwd = LookupDpo(src[2])

-----------------------------------------------------------------------------
(* The MPLS output node *)

\* The buffers the loop has been through: those enqueued.
Done == {enqueued[i][1] : i \in DOMAIN enqueued}

\* The next a buffer was enqueued to.
NextOf(pi0) == enqueued[CHOOSE i \in DOMAIN enqueued : enqueued[i][1] = pi0][2]

\* C9 as claimed: a packet gets the error MTU_EXCEEDED exactly when its
\* length with the bytes of the rewrite is above max_l3_packet_bytes of the
\* adjacency.
C9_MtuOnLengthWithRewrite ==
  \A pi0 \in Done :
    LET adj0 == adj_get(frame_in[pi0].adj_index_tx)
    IN  /\ buffers[pi0].error \in {IP4_ERROR_MTU_EXCEEDED, IP4_ERROR_NONE}
        /\ buffers[pi0].error = IP4_ERROR_MTU_EXCEEDED
             <=> vlib_buffer_length_in_chain(frame_in[pi0]) + adj0.rewrite_header.data_bytes
                   > adj0.rewrite_header.max_l3_packet_bytes

\* C9, amended: a packet gets the error MTU_EXCEEDED exactly when the
\* length it came with, without the bytes of the rewrite, is above
\* max_l3_packet_bytes of the adjacency, and the error NONE otherwise.
C9_MtuOnLengthBeforeRewrite ==
  \A pi0 \in Done :
    LET adj0 == adj_get(frame_in[pi0].adj_index_tx)
    IN  /\ buffers[pi0].error \in {IP4_ERROR_MTU_EXCEEDED, IP4_ERROR_NONE}
        /\ buffers[pi0].error = IP4_ERROR_MTU_EXCEEDED
             <=> vlib_buffer_length_in_chain(frame_in[pi0]) > adj0.rewrite_header.max_l3_packet_bytes

\* A packet that fits max_l3_packet_bytes without the rewrite and does not
\* fit with it went through with the error NONE, and a packet that does not
\* fit without the rewrite with the error MTU_EXCEEDED.
C9_Witness ==
  /\ \E pi0 \in Done :
       LET adj0 == adj_get(frame_in[pi0].adj_index_tx)
       IN  /\ vlib_buffer_length_in_chain(frame_in[pi0]) <= adj0.rewrite_header.max_l3_packet_bytes
           /\ vlib_buffer_length_in_chain(frame_in[pi0]) + adj0.rewrite_header.data_bytes
                > adj0.rewrite_header.max_l3_packet_bytes
           /\ buffers[pi0].error = IP4_ERROR_NONE
  /\ \E pi0 \in Done :
       /\ vlib_buffer_length_in_chain(frame_in[pi0])
            > adj_get(frame_in[pi0].adj_index_tx).rewrite_header.max_l3_packet_bytes
       /\ buffers[pi0].error = IP4_ERROR_MTU_EXCEEDED

\* C10: a packet with the error MTU_EXCEEDED goes to the drop next with its
\* data offset, its length and its TX interface as they were; a packet with
\* the error NONE has its data offset moved back and its length grown by
\* the number of bytes of the rewrite, the TX interface of the adjacency,
\* and goes to the next of the adjacency.
C10_FrameEffect ==
  \A pi0 \in Done :
    LET b == frame_in[pi0]
        p0 == buffers[pi0]
        rewrite_header == adj_get(b.adj_index_tx).rewrite_header
    IN  /\ p0.error = IP4_ERROR_MTU_EXCEEDED =>
             /\ NextOf(pi0) = MPLS_OUTPUT_NEXT_DROP
             /\ p0.current_data = b.current_data
             /\ p0.current_length = b.current_length
             /\ p0.sw_if_index_tx = b.sw_if_index_tx
        /\ p0.error = IP4_ERROR_NONE =>
             /\ NextOf(pi0) = rewrite_header.next_index
             /\ p0.current_data = b.current_data - rewrite_header.data_bytes
             /\ p0.current_length = b.current_length + rewrite_header.data_bytes
             /\ p0.sw_if_index_tx = rewrite_header.sw_if_index

\* The node returned from a frame of which one packet was dropped for its
\* length and one was sent on with the longer rewrite.
C10_Witness ==
  /\ mpls_pc = "done"
  /\ \E pi0, pi1 \in Done :
       /\ buffers[pi0].error = IP4_ERROR_MTU_EXCEEDED
       /\ NextOf(pi0) = MPLS_OUTPUT_NEXT_DROP
       /\ buffers[pi1].error = IP4_ERROR_NONE
       /\ buffers[pi1].current_length > frame_in[pi1].current_length + sizeof_ethernet_header_t

-----------------------------------------------------------------------------
(* Negative entries *)

\* C11: once a MAC-keyed negative entry with the action LISP_DROP is added,
\* the lookup of its bridge domain, source MAC and destination MAC returns
\* a load balance that drops, and the add made or touched no path list.
C11_L2NegativeDrop ==
  [][\A li \in (DOMAIN lisp_fwd_entry_pool') \ (DOMAIN lisp_fwd_entry_pool) :
       LET lfe == lisp_fwd_entry_pool'[li]
       IN  (/\ lfe.key.rmt.type = FID_ADDR_MAC
            /\ lfe.type = LISP_GPE_FWD_ENTRY_TYPE_NEGATIVE
            /\ lfe.action = LISP_DROP) =>
             /\ load_balance_get_bucket(
                  lisp_l2_fib_lookup(l2_fib', lfe.l2.eid_bd_index, lfe.key.lcl.mac, lfe.key.rmt.mac))
                  = "drop_dpo"
             /\ path_lists' = path_lists]_vars

-----------------------------------------------------------------------------
(* Flush *)

\* The delete request that names the key of entry lfe.
DeleteRequestOf(lfe) ==
  Request(FALSE, FALSE, LISP_NO_ACTION, lfe.key.vni, lfe.eid_table_id, lfe.l2.eid_bd_id,
          [type |-> IF lfe.key.rmt.type = FID_ADDR_MAC THEN GID_ADDR_MAC ELSE GID_ADDR_IP_PREFIX,
           ippref |-> lfe.key.rmt.ippref, mac |-> lfe.key.rmt.mac],
          [type |-> IF lfe.key.lcl.type = FID_ADDR_MAC THEN GID_ADDR_MAC ELSE GID_ADDR_IP_PREFIX,
           ippref |-> lfe.key.lcl.ippref, mac |-> lfe.key.lcl.mac],
          <<>>)

\* The state after one delete request per entry of the pool, from pool
\* index li on.
RECURSIVE DeleteEach(_, _, _)
DeleteEach(st, li, uu) ==
  IF li >= MaxEntries THEN st
  ELSE IF li \notin DOMAIN st.pool THEN DeleteEach(st, li + 1, uu)
  ELSE DeleteEach(vnet_lisp_gpe_add_del_fwd_entry(st, TRUE, DeleteRequestOf(st.pool[li]),
                                                  <<>>, uu[li]).st,
                  li + 1, uu)

\* C12: after a flush the store holds no entry, no adjacency is locked, and
\* the state is the one a delete request for each entry leaves.
C12_FlushAll ==
  [][op'.name = "flush" =>
       /\ lisp_fwd_entry_pool' = EmptyMap
       /\ lisp_gpe_fwd_entries' = EmptyMap
       /\ \A k \in AdjKeys : lisp_adjs'[k] = 0
       /\ \E uu \in [0..(MaxEntries - 1) -> {0, 1}] :
            [pool |-> lisp_fwd_entry_pool', hash |-> lisp_gpe_fwd_entries', adjs |-> lisp_adjs',
             tenants |-> tenants', fibs |-> fibs', l2_fib |-> l2_fib', path_lists |-> path_lists']
              = DeleteEach(State, 0, uu)]_vars

\* A store of two entries, with locks on adjacencies, was flushed.
C12_Witness ==
  /\ op.name = "flush"
  /\ snap.phase = "flushed" /\ snap.card = 2
  /\ \E k \in AdjKeys : snap.adjs[k] > 0
  /\ lisp_fwd_entry_pool = EmptyMap

-----------------------------------------------------------------------------
(* Rejected requests *)

\* C13: while LISP-GPE is disabled every add and every delete returns
\* VNET_API_ERROR_LISP_DISABLED and changes nothing of the store, the
\* adjacencies, the tenants, the route tables, the L2 table and the path
\* lists.
C13_DisabledRejectsAll ==
  [][(~lisp_gpe_enabled /\ op'.name \in {"add", "del"}) =>
       /\ rv' = VNET_API_ERROR_LISP_DISABLED
       /\ UNCHANGED lisp_state]_vars

\* A delete of a live key was rejected while disabled, with entries in
\* the store.
C13_Witness ==
  /\ ~lisp_gpe_enabled
  /\ op.name = "del" /\ op.live
  /\ rv = VNET_API_ERROR_LISP_DISABLED
  /\ Cardinality(DOMAIN lisp_fwd_entry_pool) = 2

\* C14: an add of a MAC-keyed entry that names an unknown bridge domain
\* returns an error and changes nothing of the store, the adjacencies, the
\* tenants, the route tables, the L2 table and the path lists.
C14_UnknownBdRejected ==
  [][(op'.name = "add" /\ ~op'.bd_ok) =>
       /\ rv' = RV_MINUS_ONE
       /\ UNCHANGED lisp_state]_vars

\* An add that names an unknown bridge domain was rejected, for a key that
\* is not in the store.
C14_Witness ==
  /\ op.name = "add" /\ op.type = GID_ADDR_MAC /\ ~op.bd_ok /\ ~op.live
  /\ rv = RV_MINUS_ONE

\* C15: an add of an entry that is not negative and has no locator pair
\* returns an error and changes nothing of the store, the tenants, the
\* route tables and the L2 table.
C15_NoLocatorsRejected ==
  [][(op'.name = "add_no_locators" /\ ~op'.live) =>
       /\ rv' # RV_OK
       /\ UNCHANGED lisp_state]_vars

-----------------------------------------------------------------------------
(* Negative IP entries *)

\* C16: the add of an IP-keyed negative entry installs, on the source route
\* of the entry, drop_dpo when the action of the request is LISP_DROP and
\* lisp_cp_dpo when it is LISP_SEND_MAP_REQUEST.
C16_IpNegativeActionSelectsDpo ==
  \A p \in IpEidPairs, vni \in VNIs, t \in TableIds, x \in NegativeActions :
    LET a == Request(TRUE, TRUE, x, vni, t, 0, p[1], p[2], <<>>)
        f == find_fwd_entry(State, a)
        r == add_ip_fwd_entry(State, a, <<>>)
        lfe == r.st.pool[r.st.hash[f.key]]
    IN  (~f.found /\ Cardinality(DOMAIN lisp_fwd_entry_pool) < MaxEntries) =>
          r.st.fibs[TableOf(lfe.key.lcl.ippref, lfe.src_fib_index)]
             .routes[ip_prefix_to_fib_prefix(lfe.key.lcl.ippref)].fwd
            = FixedDpo(IF x = LISP_DROP THEN "drop_dpo" ELSE "lisp_cp_dpo")

-----------------------------------------------------------------------------
(* Tenants *)

\* C17: a tenant is held for a VNI exactly while an entry of that VNI is in
\* the store: the delete of an entry releases what its add acquired, and
\* nothing is held for a VNI that has no entry.
C17_TenantReleasedOnDelete ==
  \A vni \in VNIs :
    (vni \in tenants) <=>
      (\E li \in DOMAIN lisp_fwd_entry_pool : lisp_fwd_entry_pool[li].key.vni = vni)

-----------------------------------------------------------------------------
(* The destination route *)

\* Destination prefixes: the one entries are added with and one more.
DstPrefixes == {[version |-> v, addr |-> x] : v \in IpVersions, x \in RmtAddrs \cup {2}}

\* C18: in every table and for every destination prefix, the first
\* ip_dst_fib_add_route makes exactly one source table and one destination
\* route that records it; a call for a prefix that has its route returns
\* the recorded source table and makes no table and no route.
C18_DstRouteIdempotent ==
  \A k \in DOMAIN fibs, p \in DstPrefixes :
    LET pfx == ip_prefix_to_fib_prefix(p)
        r1 == ip_dst_fib_add_route(fibs, k[2], p)
        r2 == ip_dst_fib_add_route(r1.fibs, k[2], p)
        new == <<pfx.fp_proto, r1.src_fib_index>>
    IN  (pfx.fp_proto = k[1]) =>
          /\ r2.src_fib_index = r1.src_fib_index
          /\ r2.fibs = r1.fibs
          /\ r1.fibs[k].routes[pfx].lisp_data = r1.src_fib_index
          /\ IF fib_table_lookup_exact_match(fibs, k[2], pfx)
             THEN /\ r1.fibs = fibs
                  /\ r1.src_fib_index = fibs[k].routes[pfx].lisp_data
             ELSE /\ new \notin DOMAIN fibs
                  /\ DOMAIN r1.fibs = DOMAIN fibs \cup {new}
                  /\ r1.fibs[new].routes = EmptyMap
                  /\ DOMAIN r1.fibs[k].routes = DOMAIN fibs[k].routes \cup {pfx}
                  /\ \A j \in DOMAIN fibs \ {k} : r1.fibs[j] = fibs[j]
                  /\ \A q \in DOMAIN fibs[k].routes : r1.fibs[k].routes[q] = fibs[k].routes[q]

\* Two entries were added for one destination prefix: they have the same
\* source table, and the destination table has the one route that records
\* it.
C18_Witness ==
  /\ op.name = "add" /\ rv = RV_OK
  /\ \E li, lj \in DOMAIN lisp_fwd_entry_pool :
       LET e1 == lisp_fwd_entry_pool[li]
           e2 == lisp_fwd_entry_pool[lj]
           dk == TableOf(e1.key.rmt.ippref, e1.eid_fib_index)
       IN  /\ li # lj
           /\ e1.key.rmt.type = FID_ADDR_IP_PREF /\ e2.key.rmt.type = FID_ADDR_IP_PREF
           /\ e1.key.rmt.ippref = e2.key.rmt.ippref
           /\ e1.eid_fib_index = e2.eid_fib_index
           /\ e1.src_fib_index = e2.src_fib_index
           /\ dk \in DOMAIN fibs
           /\ Cardinality(DOMAIN fibs[dk].routes) = 1
           /\ fibs[dk].routes[ip_prefix_to_fib_prefix(e1.key.rmt.ippref)].lisp_data = e1.src_fib_index
           /\ Cardinality({k \in DOMAIN fibs : fibs[k].ft_table_id = -1}) = 1

-----------------------------------------------------------------------------
(* Back walks *)

\* C19: when a path list has computed its forwarding again and walked its
\* children, every entry that is a child of it holds the load balance the
\* path list contributes now, the L2 table has that load balance under the
\* key of the entry, and the last child told the walk to continue.
C19_BackWalkRepublishes ==
  [][op'.name = "back_walk" =>
       /\ rv' = FIB_NODE_BACK_WALK_CONTINUE
       /\ \A pli \in DOMAIN path_lists :
            path_lists'[pli].lb # path_lists[pli].lb =>
              \A ci \in DOMAIN path_lists'[pli].children :
                LET lfe == lisp_fwd_entry_pool'[path_lists'[pli].children[ci]]
                IN  /\ lfe.l2.dpo.dpoi_index = path_lists'[pli].lb
                    /\ l2_fib'[make_mac_fib_key(lfe.l2.eid_bd_index, lfe.key.lcl.mac, lfe.key.rmt.mac)]
                         = path_lists'[pli].lb]_vars

\* A path list with a child was walked after its load balance changed, and
\* the L2 table has the new load balance under the key of the child.
C19_Witness ==
  /\ op.name = "back_walk"
  /\ \E pli \in DOMAIN path_lists :
       /\ path_lists[pli].lb # pli + 1
       /\ \E ci \in DOMAIN path_lists[pli].children :
            LET lfe == lisp_fwd_entry_pool[path_lists[pli].children[ci]]
            IN  /\ lfe.type = LISP_GPE_FWD_ENTRY_TYPE_NORMAL
                /\ l2_fib[make_mac_fib_key(lfe.l2.eid_bd_index, lfe.key.lcl.mac, lfe.key.rmt.mac)]
                     = path_lists[pli].lb

-----------------------------------------------------------------------------
(* Children of path lists *)

\* The child registrations of all path lists.
Children == UNION {{<<pli, ci>> : ci \in DOMAIN path_lists[pli].children} : pli \in DOMAIN path_lists}

\* The MAC-keyed entries of the store that are not negative.
NormalL2Entries ==
  {li \in DOMAIN lisp_fwd_entry_pool :
     /\ lisp_fwd_entry_pool[li].key.rmt.type = FID_ADDR_MAC
     /\ lisp_fwd_entry_pool[li].type = LISP_GPE_FWD_ENTRY_TYPE_NORMAL}

\* C20: the child registrations are those of the normal MAC-keyed entries
\* of the store, one each, under the path list and child index the entry
\* keeps; a path list has one lock per child; hence there are as many child
\* registrations as normal MAC-keyed entries.
C20_ChildrenBalanced ==
  /\ Cardinality(Children) = Cardinality(NormalL2Entries)
  /\ \A li \in NormalL2Entries :
       LET l2 == lisp_fwd_entry_pool[li].l2
       IN  /\ <<l2.path_list_index, l2.child_index>> \in Children
           /\ path_lists[l2.path_list_index].children[l2.child_index] = li
  /\ \A c \in Children : path_lists[c[1]].children[c[2]] \in NormalL2Entries
  /\ \A pli \in DOMAIN path_lists :
       path_lists[pli].locks = Cardinality(DOMAIN path_lists[pli].children)

\* A normal MAC-keyed entry was added and deleted while another one stays
\* a child of its path list, and a negative MAC-keyed or IP-keyed entry
\* could have been in the store.
C20_Witness ==
  /\ op.name = "del" /\ op.type = GID_ADDR_MAC /\ rv = RV_OK
  /\ snap.phase = "deleted" /\ snap.npairs > 0
  /\ Cardinality(NormalL2Entries) = 1
  /\ Cardinality(Children) = 1

-----------------------------------------------------------------------------
(* The frames of the next nodes *)

\* The buffer indices of a sequence of frames, in order.
RECURSIVE Flatten(_)
Flatten(frames) ==
  IF frames = <<>> THEN <<>> ELSE Head(frames) \o Flatten(Tail(frames))

\* The next node the loop finds for buffer pi0 of the frame.
NextFor(pi0) == mpls_output_inline_x1(frame_in[pi0], is_midchain).next0

\* C21: a call of the node returns, and when it has returned every buffer
\* of the frame has been enqueued once: each next node has, in its frames,
\* the buffers of the frame that go to it, in the order of the frame, after
\* what its frame held before the call, and no frame holds more than
\* VLIB_FRAME_SIZE buffers.
C21_EnqueuedOnceInOrder ==
  /\ [](mpls_pc = "done" =>
          /\ Len(enqueued) = Len(from_frame)
          /\ \A n \in MplsNexts :
               SelectSeq(Flatten(next_frames[n]), LAMBDA bi : bi # 0)
                 = SelectSeq(from_frame, LAMBDA pi0 : NextFor(pi0) = n))
  /\ [](\A n \in MplsNexts : \A i \in DOMAIN next_frames[n] :
          Len(next_frames[n][i]) <= VLIB_FRAME_SIZE)
  /\ (mpls_pc = "loop" ~> mpls_pc = "done")

\* The node has returned from a frame of two buffers that went to one next
\* node, whose frame filled up so that a second one was fetched.
C21_Witness ==
  /\ mpls_pc = "done"
  /\ Len(from_frame) = 2
  /\ \E n \in MplsNexts :
       /\ Len(next_frames[n]) = 2
       /\ next_frames[n][1] = <<0, 1>>
       /\ next_frames[n][2] = <<2>>

-----------------------------------------------------------------------------
(* The fixup function *)

\* The buffer indices the fixup function was called with.
Fixed == {fixups[i] : i \in DOMAIN fixups}

\* C22: the fixup function of the adjacency is called for a buffer exactly
\* when the node is mpls-midchain and the buffer has IP4_ERROR_NONE: never
\* by mpls-output, never for a buffer that goes to the drop node, once per
\* buffer, and before the buffer is enqueued.
C22_FixupOnlyMidchainNone ==
  /\ Fixed \subseteq Done
  /\ \A i, j \in DOMAIN fixups : fixups[i] = fixups[j] => i = j
  /\ \A i \in DOMAIN enqueued :
       LET pi0 == enqueued[i][1]
       IN  /\ (pi0 \in Fixed) <=> (is_midchain /\ buffers[pi0].error = IP4_ERROR_NONE)
           /\ enqueued[i][2] = MPLS_OUTPUT_NEXT_DROP => pi0 \notin Fixed
           /\ enqueued[i][4] = (pi0 \in Fixed)

\* mpls-midchain has returned from a frame with a buffer that exceeded the
\* MTU, which the fixup function was not called with, and a buffer that did
\* not, which it was called with.
C22_Witness ==
  /\ mpls_pc = "done" /\ is_midchain
  /\ \E pi0, pi1 \in Done :
       /\ buffers[pi0].error = IP4_ERROR_MTU_EXCEEDED /\ pi0 \notin Fixed
       /\ buffers[pi1].error = IP4_ERROR_NONE /\ pi1 \in Fixed

-----------------------------------------------------------------------------
(* The key of a request *)

\* C23: for a remote endpoint that is an IP prefix, the key of a request
\* has the IP version of the remote endpoint in its local endpoint,
\* whichever version the request gives there: two requests that differ in
\* that version only have the same key, the add of one after the add of the
\* other is refused as a duplicate and the delete of one deletes the entry
\* of the other.
C23_LocalVersionForced ==
  \A p \in IpEidPairs, vni \in VNIs, t \in TableIds, v \in IpVersions :
    LET lcl2 == [p[2] EXCEPT !.ippref.version = v]
        a1 == Request(TRUE, TRUE, LISP_DROP, vni, t, 0, p[1], p[2], <<>>)
        a2 == Request(TRUE, TRUE, LISP_DROP, vni, t, 0, p[1], lcl2, <<>>)
        d2 == Request(FALSE, FALSE, LISP_NO_ACTION, vni, t, 0, p[1], lcl2, <<>>)
        f1 == find_fwd_entry(State, a1)
        r1 == vnet_lisp_gpe_add_del_fwd_entry(State, TRUE, a1, <<>>, 0)
    IN  /\ f1.key = find_fwd_entry(State, a2).key
        /\ f1.key.lcl.ippref.version = p[1].ippref.version
        /\ (~f1.found /\ Cardinality(DOMAIN lisp_fwd_entry_pool) < MaxEntries) =>
             /\ r1.rv = RV_OK
             /\ vnet_lisp_gpe_add_del_fwd_entry(r1.st, TRUE, a2, <<>>, 0).rv
                  = VNET_API_ERROR_INVALID_VALUE
             /\ \A u \in {0, 1} :
                  /\ vnet_lisp_gpe_add_del_fwd_entry(r1.st, TRUE, d2, <<>>, u).rv = RV_OK
                  /\ find_fwd_entry(r1.st, d2).found
                  /\ ~find_fwd_entry(vnet_lisp_gpe_add_del_fwd_entry(r1.st, TRUE, d2, <<>>, u).st, a1).found

\* An entry added with one IP version given for the local endpoint was
\* deleted by a request that gave the other.
C23_Witness ==
  /\ op.name = "del" /\ op.type = GID_ADDR_IP_PREFIX /\ rv = RV_OK
  /\ snap.phase = "deleted"
  /\ snap.lcl_version = IP4 /\ snap.del_lcl_version = IP6

-----------------------------------------------------------------------------
(* The paths of an entry *)

\* C24: the paths of every entry of the store are in ascending order of
\* priority; an entry that is not negative has one path per locator pair of
\* a list given to adds, with the pair's priority and weight and the
\* adjacency of the pair in the entry's VNI; a negative entry has no path.
C24_PathsSortedPerPair ==
  \A li \in DOMAIN lisp_fwd_entry_pool :
    LET lfe == lisp_fwd_entry_pool[li]
        paths == lfe.paths
    IN  /\ \A i, j \in DOMAIN paths : i < j => paths[i].priority <= paths[j].priority
        /\ lfe.type = LISP_GPE_FWD_ENTRY_TYPE_NEGATIVE => paths = <<>>
        /\ lfe.type = LISP_GPE_FWD_ENTRY_TYPE_NORMAL =>
             \E l \in LocatorLists : \E f \in Perms(Len(l)) :
               /\ Len(paths) = Len(l)
               /\ \A i \in DOMAIN paths :
                    paths[i] = [priority |-> l[f[i]].priority, weight |-> l[f[i]].weight,
                                lisp_adj |-> <<l[f[i]].lcl_loc, l[f[i]].rmt_loc, lfe.key.vni>>]

\* The store holds an entry whose paths are in another order than the
\* locator pairs of its add, and a negative entry.
C24_Witness ==
  \E li, lj \in DOMAIN lisp_fwd_entry_pool :
    /\ lisp_fwd_entry_pool[li].type = LISP_GPE_FWD_ENTRY_TYPE_NORMAL
    /\ Len(lisp_fwd_entry_pool[li].paths) = 2
    /\ lisp_fwd_entry_pool[li].paths[1].priority = 10
    /\ lisp_fwd_entry_pool[li].paths[2].priority = 20
    /\ lisp_fwd_entry_pool[lj].type = LISP_GPE_FWD_ENTRY_TYPE_NEGATIVE
    /\ lisp_fwd_entry_pool[lj].paths = <<>>

-----------------------------------------------------------------------------
(* Republish of an L2 table key *)

-----------------------------------------------------------------------------
(* The routes of the entries of the store *)

\* The IP-keyed entries of the store.
IpEntries ==
  {li \in DOMAIN lisp_fwd_entry_pool : lisp_fwd_entry_pool[li].key.rmt.type = FID_ADDR_IP_PREF}

\* C26: every IP-keyed entry of the store has its routes: its destination
\* table has the route of its remote prefix, which records the source table
\* the entry keeps, and that source table exists and has the route of the
\* entry's local prefix.
C26_LiveIpEntryHasRoutes ==
  \A li \in IpEntries :
    LET lfe == lisp_fwd_entry_pool[li]
        dk == TableOf(lfe.key.rmt.ippref, lfe.eid_fib_index)
        sk == TableOf(lfe.key.lcl.ippref, lfe.src_fib_index)
        dst == ip_prefix_to_fib_prefix(lfe.key.rmt.ippref)
        src == ip_prefix_to_fib_prefix(lfe.key.lcl.ippref)
    IN  /\ dk \in DOMAIN fibs
        /\ dst \in DOMAIN fibs[dk].routes
        /\ fibs[dk].routes[dst].lisp_data = lfe.src_fib_index
        /\ sk \in DOMAIN fibs
        /\ src \in DOMAIN fibs[sk].routes

\* The MAC-keyed entries of the store.
L2Entries ==
  {li \in DOMAIN lisp_fwd_entry_pool : lisp_fwd_entry_pool[li].key.rmt.type = FID_ADDR_MAC}

\* C27: every MAC-keyed entry of the store has, under the key made of its
\* bridge domain index, its remote MAC as destination and its local MAC as
\* source, an L2 table entry whose value is the entry's own forwarding: the
\* load balance its path list contributes, or that of the control-plane
\* lookup for a negative entry.
C27_LiveL2EntryHasOwnKey ==
  \A li \in L2Entries :
    LET lfe == lisp_fwd_entry_pool[li]
        kv == make_mac_fib_key(lfe.l2.eid_bd_index, lfe.key.lcl.mac, lfe.key.rmt.mac)
    IN  /\ kv \in DOMAIN l2_fib
        /\ l2_fib[kv] = IF lfe.type = LISP_GPE_FWD_ENTRY_TYPE_NEGATIVE
                        THEN l2_lb_cp_lkup.dpoi_index
                        ELSE fib_path_list_contribute_forwarding(path_lists, lfe.l2.path_list_index).dpoi_index

\* The source tables: the tables made by ip_dst_fib_add_route, which have
\* no table id.
SrcTables == {k \in DOMAIN fibs : fibs[k].ft_table_id = -1}

\* C28: a delete or a flush withdraws the routes of an IP-keyed entry from
\* a source table that exists, and when the store has no IP-keyed entry
\* left no source table and no destination route is left.
C28_SrcTableBalanced ==
  [][/\ \A li \in (DOMAIN lisp_fwd_entry_pool) \ (DOMAIN lisp_fwd_entry_pool') :
          lisp_fwd_entry_pool[li].key.rmt.type = FID_ADDR_IP_PREF =>
            TableOf(lisp_fwd_entry_pool[li].key.lcl.ippref, lisp_fwd_entry_pool[li].src_fib_index)
              \in DOMAIN fibs
     /\ IpEntries' = {} =>
          /\ SrcTables' = {}
          /\ \A k \in DOMAIN fibs' : fibs'[k].routes = EmptyMap]_vars

-----------------------------------------------------------------------------
(* The hash and the pool *)

\* C29: every key of the hash has the index of an element of the pool
\* whose key it is, and every element of the pool is had by its key; a
\* successful add puts exactly the key of the request in the hash, a
\* successful delete takes exactly one key out, which was in, a flush takes
\* all out, and a request that is refused changes no key: a key is found
\* exactly when it was added and not deleted or flushed since.
C29_HashPoolOneToOne ==
  /\ [](/\ \A key \in DOMAIN lisp_gpe_fwd_entries :
             /\ lisp_gpe_fwd_entries[key] \in DOMAIN lisp_fwd_entry_pool
             /\ lisp_fwd_entry_pool[lisp_gpe_fwd_entries[key]].key = key
        /\ \A li \in DOMAIN lisp_fwd_entry_pool :
             /\ lisp_fwd_entry_pool[li].key \in DOMAIN lisp_gpe_fwd_entries
             /\ lisp_gpe_fwd_entries[lisp_fwd_entry_pool[li].key] = li)
  /\ [][/\ (op'.name = "add" /\ rv' = RV_OK) =>
             /\ ~op'.live
             /\ snap'.key \notin DOMAIN lisp_gpe_fwd_entries
             /\ DOMAIN lisp_gpe_fwd_entries' = DOMAIN lisp_gpe_fwd_entries \cup {snap'.key}
        /\ (op'.name = "del" /\ rv' = RV_OK) =>
             /\ op'.live
             /\ DOMAIN lisp_gpe_fwd_entries' \subseteq DOMAIN lisp_gpe_fwd_entries
             /\ Cardinality(DOMAIN lisp_gpe_fwd_entries')
                  = Cardinality(DOMAIN lisp_gpe_fwd_entries) - 1
        /\ (op'.name \in {"add", "del"} /\ rv' # RV_OK) =>
             /\ DOMAIN lisp_gpe_fwd_entries' = DOMAIN lisp_gpe_fwd_entries
             /\ op'.name = "del" => ~op'.live
             /\ (op'.name = "add" /\ op'.bd_ok) => op'.live
        /\ op'.name = "flush" => DOMAIN lisp_gpe_fwd_entries' = {}]_vars

\* The entry at pool index 0 was deleted and the entry at pool index 1
\* stays, had by its key.
C29_Witness ==
  /\ op.name = "del" /\ rv = RV_OK
  /\ DOMAIN lisp_fwd_entry_pool = {1}
  /\ DOMAIN lisp_gpe_fwd_entries = {lisp_fwd_entry_pool[1].key}

=============================================================================
